---------------------------- MODULE Spec2Model ----------------------------
(***************************************************************************)
(* A model of the CHA regulation assistant: the XML -> JSON ingestion      *)
(* (parse_xml_to_json.py), the keyword search of the Streamlit app         *)
(* (app.py) and the HWPML exporter with its markdown reverse parser        *)
(* (hwpml_exporter.py).                                                    *)
(*                                                                         *)
(* Text is a sequence of characters.  A character is a one-letter string;  *)
(* the Hangul and full-width characters the code tests for are written as  *)
(* romanised tokens ("je" = U+C81C, "jo" = U+C870, "ui" = U+C758,          *)
(* "fw(" = U+FF08, "fw)" = U+FF09, ...), because the module is ASCII.      *)
(***************************************************************************)
EXTENDS Integers, Sequences, FiniteSets, TLC

(***************************************************************************)
(* Bounds of the model.                                                    *)
(***************************************************************************)
MaxParas == 4
MaxFiles == 3
MaxDocs == 3
MaxRows == 2
MaxLines == 4
MaxTableRows == 2
MaxAnalysisLines == 3
\* The questions asked of one regulation in a chat.
MaxTurns == 5

(***************************************************************************)
(* Characters and the string methods of Python the code uses.              *)
(***************************************************************************)
NL == "\n"
Whitespace == {" ", NL, "\t"}
Digits == {"0", "1", "2", "3", "4", "5", "6", "7", "8", "9"}

Str(s) == [k \in 1..Len(s) |-> s[k]]

\* s[a..b] clipped to the string, as a Python slice is.
Slice(s, a, b) == IF a > b THEN <<>> ELSE SubSeq(s, a, b)

\* True iff sub occurs in s at position k: s[k : k+len(sub)] == sub.
OccursAt(s, sub, k) ==
    /\ k >= 1
    /\ k + Len(sub) - 1 <= Len(s)
    /\ \A j \in 1..Len(sub) : s[k + j - 1] = sub[j]

\* str.startswith / str.endswith / the operator "in" on strings.
StartsWith(s, sub) == OccursAt(s, sub, 1)
EndsWith(s, sub) == OccursAt(s, sub, Len(s) - Len(sub) + 1)
Contains(s, sub) == \E k \in 1..(Len(s) + 1) : OccursAt(s, sub, k)

\* str.strip(): leading and trailing whitespace removed.
RECURSIVE LStrip(_)
LStrip(s) ==
    IF s # <<>> /\ Head(s) \in Whitespace THEN LStrip(Tail(s)) ELSE s

RECURSIVE RStrip(_)
RStrip(s) ==
    IF s # <<>> /\ s[Len(s)] \in Whitespace
    THEN RStrip(SubSeq(s, 1, Len(s) - 1))
    ELSE s

Strip(s) == RStrip(LStrip(s))

\* sep.join(parts)
RECURSIVE Join(_, _)
Join(parts, sep) ==
    IF parts = <<>> THEN <<>>
    ELSE IF Len(parts) = 1 THEN parts[1]
    ELSE parts[1] \o sep \o Join(Tail(parts), sep)

\* The least element of a non-empty set of numbers.
Least(S) == CHOOSE m \in S : \A n \in S : m <= n

\* The least index >= k whose character is in S, or 0.
FirstIn(s, k, S) ==
    LET found == {j \in k..Len(s) : s[j] \in S}
    IN  IF found = {} THEN 0 ELSE Least(found)

\* str.split(sep) for a one-character separator: always at least one piece.
RECURSIVE SplitFrom(_, _, _)
SplitFrom(s, sep, k) ==
    LET next == FirstIn(s, k, {sep})
    IN  IF next = 0 THEN <<Slice(s, k, Len(s))>>
        ELSE <<Slice(s, k, next - 1)>> \o SplitFrom(s, sep, next + 1)

Split(s, sep) == SplitFrom(s, sep, 1)

\* The sequences of a sequence, concatenated.
RECURSIVE Flatten(_)
Flatten(ss) == IF ss = <<>> THEN <<>> ELSE Head(ss) \o Flatten(Tail(ss))


\* str.lower() on the characters of the model (Hangul has no case).
UpperCase == <<"A", "B", "C", "D", "E", "F", "G", "H", "I", "J", "K", "L", "M",
               "N", "O", "P", "Q", "R", "S", "T", "U", "V", "W", "X", "Y", "Z">>
LowerCase == <<"a", "b", "c", "d", "e", "f", "g", "h", "i", "j", "k", "l", "m",
               "n", "o", "p", "q", "r", "s", "t", "u", "v", "w", "x", "y", "z">>

LowerChar(c) ==
    IF \E k \in 1..Len(UpperCase) : UpperCase[k] = c
    THEN LowerCase[CHOOSE k \in 1..Len(UpperCase) : UpperCase[k] = c]
    ELSE c

Lower(s) == [k \in 1..Len(s) |-> LowerChar(s[k])]

\* The least index >= k whose character is outside S (Len(s) + 1 if none):
\* where a greedy run of characters of S that starts at k ends.
RECURSIVE RunEnd(_, _, _)
RunEnd(s, k, S) ==
    IF k <= Len(s) /\ s[k] \in S THEN RunEnd(s, k + 1, S) ELSE k

(***************************************************************************)
(* parse_xml_to_json.py                                                    *)
(***************************************************************************)

\* extract_text_from_xml.  A file is what the two regular expressions find
\* in it: blocks, the <CHAR> runs of each <P ...>...</P> block in order,
\* and loose, the <CHAR> runs outside every block.
StripNonEmpty(runs) ==
    LET stripped == [k \in 1..Len(runs) |-> Strip(runs[k])]
    IN  SelectSeq(stripped, LAMBDA c : c # <<>>)

BlockText(block_chars) == Join(StripNonEmpty(block_chars), <<" ">>)

extract_text_from_xml(file) ==
    LET texts == [k \in 1..Len(file.blocks) |-> BlockText(file.blocks[k])]
        paragraphs == SelectSeq(texts, LAMBDA t : t # <<>>)
        chars == Flatten(file.blocks) \o file.loose
    IN  IF paragraphs = <<>> /\ chars # <<>>
        THEN StripNonEmpty(chars)
        ELSE paragraphs

\* article_pattern = ^(je \d+ jo (?:ui \d+)?) \s* [( fw(] (.+?) [) fw)]
\* matched at the start of the paragraph.  The result is <<>> (no match) or
\* one record with the two groups.
OpenParen == {"(", "fw("}
CloseParen == {")", "fw)"}

article_pattern(para) ==
    LET a == RunEnd(para, 2, Digits)
        hasSuffix == /\ a + 1 <= Len(para)
                     /\ para[a + 1] = "ui"
                     /\ RunEnd(para, a + 2, Digits) > a + 2
        idEnd == IF hasSuffix THEN RunEnd(para, a + 2, Digits) - 1 ELSE a
        open == RunEnd(para, idEnd + 1, Whitespace)
        close == FirstIn(para, open + 2, CloseParen)
    IN  IF /\ Len(para) >= 1
           /\ para[1] = "je"
           /\ a > 2
           /\ a <= Len(para)
           /\ para[a] = "jo"
           /\ open <= Len(para)
           /\ para[open] \in OpenParen
           /\ close # 0
           /\ \A j \in (open + 1)..(close - 1) : para[j] # NL
        THEN <<[number |-> SubSeq(para, 1, idEnd),
                title |-> SubSeq(para, open + 1, close - 1)]>>
        ELSE <<>>

\* extract_articles: the loop over the paragraphs, with current_article
\* (<<>> is None) and current_text, then the last article is stored.
StoreArticle(articles, current_article, current_text) ==
    IF current_article # <<>>
    THEN Append(articles,
                [number |-> current_article[1].number,
                 title |-> current_article[1].title,
                 content |-> Join(current_text, <<NL>>)])
    ELSE articles

\* The loop with current_text.append(para) where the code starts a new
\* current_text: an article's content keeps the earlier articles' paragraphs.
RECURSIVE ArticleLoop_KeepsText(_, _, _, _)
ArticleLoop_KeepsText(paragraphs, articles, current_article, current_text) ==
    IF paragraphs = <<>>
    THEN StoreArticle(articles, current_article, current_text)
    ELSE LET para == Head(paragraphs)
             match == article_pattern(para)
         IN  IF match # <<>>
             THEN ArticleLoop_KeepsText(Tail(paragraphs),
                      StoreArticle(articles, current_article, current_text),
                      match, Append(current_text, para))
             ELSE IF current_article # <<>>
             THEN ArticleLoop_KeepsText(Tail(paragraphs), articles,
                      current_article, Append(current_text, para))
             ELSE ArticleLoop_KeepsText(Tail(paragraphs), articles,
                      current_article, current_text)

RECURSIVE ArticleLoop(_, _, _, _)
ArticleLoop(paragraphs, articles, current_article, current_text) ==
    IF paragraphs = <<>>
    THEN StoreArticle(articles, current_article, current_text)
    ELSE LET para == Head(paragraphs)
             match == article_pattern(para)
         IN  IF match # <<>>
             THEN ArticleLoop(Tail(paragraphs),
                              StoreArticle(articles, current_article, current_text),
                              match, <<para>>)
             ELSE IF current_article # <<>>
             THEN ArticleLoop(Tail(paragraphs), articles, current_article,
                              Append(current_text, para))
             ELSE ArticleLoop(Tail(paragraphs), articles, current_article,
                              current_text)

\* extract_articles without the store after the loop: the last article is lost.
extract_articles_NoLastStore(paragraphs) ==
    LET stored == ArticleLoop(paragraphs, <<>>, <<>>, <<>>)
    IN  IF stored = <<>> THEN stored ELSE SubSeq(stored, 1, Len(stored) - 1)

extract_articles(paragraphs) == ArticleLoop(paragraphs, <<>>, <<>>, <<>>)

\* guess_regulation_name: the name from the file name, unless one of the
\* first paragraphs is short and holds a regulation keyword.
NameScanLimit == 10
NameMaxLen == 50
NameKeywords == {<<"gyu", "jeong">>, <<"hak", "chik">>, <<"nae", "gyu">>,
                 <<"ji", "chim">>, <<"yo", "gang">>, <<"se", "chik">>}

\* str.rfind(c) + 1
LastIndexOf(s, c) ==
    LET found == {j \in 1..Len(s) : s[j] = c}
    IN  IF found = {} THEN 0 ELSE CHOOSE m \in found : \A n \in found : n <= m

\* Path(filename).stem
Stem(filename) ==
    LET dot == LastIndexOf(filename, ".")
    IN  IF dot > 1 /\ dot < Len(filename)
        THEN SubSeq(filename, 1, dot - 1)
        ELSE filename

\* re.sub(r"^\d+[-_]\d*[-_]*", "", name)
StripNumberPrefix(name) ==
    LET a == RunEnd(name, 1, Digits)
        b == RunEnd(name, a + 1, Digits)
        c == RunEnd(name, b, {"-", "_"})
    IN  IF a > 1 /\ a <= Len(name) /\ name[a] \in {"-", "_"}
        THEN Slice(name, c, Len(name))
        ELSE name

HasNameKeyword(para) == \E w \in NameKeywords : Contains(para, w)

RECURSIVE FirstNamePara(_)
FirstNamePara(paragraphs) ==
    IF paragraphs = <<>> THEN <<>>
    ELSE IF HasNameKeyword(Head(paragraphs)) /\ Len(Head(paragraphs)) < NameMaxLen
    THEN <<Strip(Head(paragraphs))>>
    ELSE FirstNamePara(Tail(paragraphs))

guess_regulation_name(filename, paragraphs) ==
    LET stripped == StripNumberPrefix(Stem(filename))
        name == Strip([k \in 1..Len(stripped) |->
                          IF stripped[k] = "_" THEN " " ELSE stripped[k]])
        scanned == Slice(paragraphs, 1,
                         IF Len(paragraphs) < NameScanLimit
                         THEN Len(paragraphs) ELSE NameScanLimit)
        found == FirstNamePara(scanned)
    IN  IF found # <<>> THEN found[1]
        ELSE IF name # <<>> THEN name
        ELSE filename

\* f"REG-{i:03d}": the decimal digits of i, zero-padded to three.
DigitChar(d) == <<"0", "1", "2", "3", "4", "5", "6", "7", "8", "9">>[d + 1]

RECURSIVE Decimal(_)
Decimal(n) ==
    IF n < 10 THEN <<DigitChar(n)>>
    ELSE Append(Decimal(n \div 10), DigitChar(n % 10))

RECURSIVE ZeroPad(_, _)
ZeroPad(s, width) == IF Len(s) >= width THEN s ELSE ZeroPad(<<"0">> \o s, width)

\* The id with the number taken modulo 2.
RegId_Wraps(i) == <<"R", "E", "G", "-">> \o ZeroPad(Decimal(i % 2), 3)

RegId(i) == <<"R", "E", "G", "-">> \o ZeroPad(Decimal(i), 3)

\* The record with char_count taken without the joining newlines.
MakeRegulation_CountsNoNewlines(i, fname, file) ==
    LET paragraphs == extract_text_from_xml(file)
        articles == extract_articles(paragraphs)
        full_text == Join(paragraphs, <<NL>>)
    IN  [id |-> RegId(i),
         filename |-> fname,
         name |-> guess_regulation_name(fname, paragraphs),
         full_text |-> full_text,
         articles |-> articles,
         article_count |-> Len(articles),
         char_count |-> Len(Flatten(paragraphs))]

\* The body of the try block of parse_all_xml for file number i.
MakeRegulation(i, fname, file) ==
    LET paragraphs == extract_text_from_xml(file)
        articles == extract_articles(paragraphs)
        full_text == Join(paragraphs, <<NL>>)
    IN  [id |-> RegId(i),
         filename |-> fname,
         name |-> guess_regulation_name(fname, paragraphs),
         full_text |-> full_text,
         articles |-> articles,
         article_count |-> Len(articles),
         char_count |-> Len(full_text)]

\* sorted(): by code point, character by character.
IndexIn(seq, c) == CHOOSE k \in 1..Len(seq) : seq[k] = c

Ord(c) ==
    CASE c \in Digits -> 47 + IndexIn(<<"0", "1", "2", "3", "4", "5", "6", "7",
                                        "8", "9">>, c)
      [] c \in {UpperCase[k] : k \in 1..Len(UpperCase)} -> 64 + IndexIn(UpperCase, c)
      [] c \in {LowerCase[k] : k \in 1..Len(LowerCase)} -> 96 + IndexIn(LowerCase, c)
      [] c = "-" -> 45
      [] c = "." -> 46
      [] c = "_" -> 95
      [] c = "gu" -> 44396
      [] c = "gyu" -> 44508
      [] c = "bi" -> 48708
      [] c = "yeon" -> 50672
      [] c = "jeong" -> 51221

RECURSIVE LexLess(_, _)
LexLess(s, t) ==
    IF t = <<>> THEN FALSE
    ELSE IF s = <<>> THEN TRUE
    ELSE IF Head(s) # Head(t) THEN Ord(Head(s)) < Ord(Head(t))
    ELSE LexLess(Tail(s), Tail(t))

RECURSIVE Sorted(_)
Sorted(names) ==
    IF names = {} THEN <<>>
    ELSE LET least == CHOOSE n \in names :
                          \A other \in names \ {n} : LexLess(n, other)
         IN  <<least>> \o Sorted(names \ {least})

IsXml(f) == EndsWith(Lower(f), <<".", "x", "m", "l">>)

(***************************************************************************)
(* The state.                                                              *)
(*   pc           where the running operation stands                       *)
(*   listing      the directory: a set of files, each with its name, its   *)
(*                readability and its content                              *)
(*   xml_files, i, paragraphs, regulations                                 *)
(*                the locals of parse_all_xml; regulations is also the     *)
(*                corpus the app loads                                     *)
(*   index        the result of build_search_index                         *)
(*   query, top_k, results                                                 *)
(*                the arguments and the result of the last keyword_search  *)
(*   title, amendment_rows, metadata, head, section                        *)
(*                the arguments of the last create_amendment_doc and the   *)
(*                HEAD and the body of the last document built             *)
(*   gpt_text, rows                                                        *)
(*                the argument and the result of parse_gpt_amendment       *)
(*   regulation, relevant                                                  *)
(*                the regulation (by its position in results) the page     *)
(*                last passed to find_relevant_articles with query, and    *)
(*                what it returned                                         *)
(*   selected_names, name_pos                                              *)
(*                the names selected on page_amendment and the position    *)
(*                of its loop over them                                    *)
(*   requests     the requests the running page has passed to              *)
(*                client.chat.completions.create, each with its reply      *)
(*   shown        what the running page has put on the screen              *)
(*   session_state                                                         *)
(*                st.session_state: the chat history of each chat key      *)
(***************************************************************************)
VARIABLES pc, listing, xml_files, i, paragraphs, regulations,
          index, query, top_k, results, regulation, relevant,
          title, amendment_rows, metadata, head, section,
          gpt_text, rows,
          selected_names, name_pos, requests, shown, session_state

ingestLocals == <<listing, xml_files, i, paragraphs>>
ingestVars == <<ingestLocals, regulations>>
searchVars == <<index, query, top_k, results, regulation, relevant>>
exportVars == <<title, amendment_rows, metadata, head, section>>
parseVars == <<gpt_text, rows>>
sessionVars == <<selected_names, name_pos, requests, shown, session_state>>
vars == <<pc, ingestVars, searchVars, exportVars, parseVars, sessionVars>>

\* What the operations of one module leave alone.
nonIngestVars == <<searchVars, exportVars, parseVars, sessionVars>>
nonSearchVars == <<ingestVars, exportVars, parseVars, sessionVars>>
nonExportVars == <<ingestVars, searchVars, parseVars, sessionVars>>
nonParseVars == <<ingestVars, searchVars, exportVars, sessionVars>>

\* No document has been built.
ExportIdle ==
    /\ title = <<>>
    /\ amendment_rows = <<>>
    /\ metadata = <<>>
    /\ head = <<>>
    /\ section = <<>>

\* Nothing has been parsed.
ParseIdle == rows = <<>>

\* No page has been used: nothing selected, no request sent, nothing shown,
\* no chat stored.
SessionIdle ==
    /\ selected_names = <<>>
    /\ name_pos = 0
    /\ requests = <<>>
    /\ shown = <<>>
    /\ session_state = <<>>

\* Nothing has been searched.
SearchIdle ==
    /\ index = <<>>
    /\ query = <<>>
    /\ top_k = 0
    /\ results = <<>>
    /\ regulation = 0
    /\ relevant = <<>>

\* Nothing has been ingested in this process.
IngestIdle ==
    /\ listing = {}
    /\ xml_files = <<>>
    /\ i = 0
    /\ paragraphs = <<>>

FileNamed(fname) == CHOOSE f \in listing : f.fname = fname

\* parse_all_xml, up to the loop: the .xml names, sorted; exit if none.
ListFiles ==
    /\ pc = "start"
    /\ LET names == {f.fname : f \in {g \in listing : IsXml(g.fname)}}
       IN  /\ xml_files' = Sorted(names)
           /\ pc' = IF names = {} THEN "exit" ELSE "loop"
    /\ i' = 1
    /\ regulations' = <<>>
    /\ UNCHANGED <<listing, paragraphs>>
    /\ UNCHANGED nonIngestVars

ParseFile_AbortsOnFailure ==
    /\ pc = "loop"
    /\ i <= Len(xml_files)
    /\ LET fname == xml_files[i]
           file == FileNamed(fname)
       IN  IF file.readable
           THEN /\ paragraphs' = extract_text_from_xml(file)
                /\ regulations' = Append(regulations, MakeRegulation(i, fname, file))
                /\ pc' = pc
           ELSE /\ pc' = "returned"
                /\ UNCHANGED <<paragraphs, regulations>>
    /\ i' = i + 1
    /\ UNCHANGED <<listing, xml_files>>
    /\ UNCHANGED nonIngestVars

\* One iteration of the loop: the try block, or its except clause when the
\* file cannot be read.
ParseFile ==
    /\ pc = "loop"
    /\ i <= Len(xml_files)
    /\ LET fname == xml_files[i]
           file == FileNamed(fname)
       IN  IF file.readable
           THEN /\ paragraphs' = extract_text_from_xml(file)
                /\ regulations' = Append(regulations, MakeRegulation(i, fname, file))
           ELSE UNCHANGED <<paragraphs, regulations>>
    /\ i' = i + 1
    /\ UNCHANGED <<pc, listing, xml_files>>
    /\ UNCHANGED nonIngestVars

\* The loop is over: return regulations.
ReturnRegulations ==
    /\ pc = "loop"
    /\ i > Len(xml_files)
    /\ pc' = "returned"
    /\ UNCHANGED ingestVars
    /\ UNCHANGED nonIngestVars

NextIngest == ListFiles \/ ParseFile \/ ReturnRegulations

(***************************************************************************)
(* Inputs.  The <P> blocks a file is made of: a heading, two article       *)
(* headers (half-width and full-width brackets, the second split over two  *)
(* padded runs), a continuation line, two near misses of the pattern and   *)
(* a block of blank runs.                                                  *)
(***************************************************************************)
BlockHeading == << <<"chong", "chik">> >>
BlockArticle1 == << <<"je", "1", "jo", "(", "mok", "jeok", ")", " ", "i">> >>
BlockArticle2 == << <<"je", "2", "jo", "ui", "2", " ">>,
                    <<" ", "fw(", "jeok", "yong", "fw)">> >>
BlockContinued == << <<" ", "gye", "sok", " ">> >>
BlockNoBracket == << <<"je", "3", "jo", " ", "mok", "jeok">> >>
BlockNewline == << <<"je", "4", "jo", "(", "a", NL, "b", ")">> >>
BlockBlank == << <<" ">>, <<>> >>

BlockPool == {BlockHeading, BlockArticle1, BlockArticle2, BlockContinued,
              BlockNoBracket, BlockNewline, BlockBlank}

LoosePool_Runs == << <<"je", "1", "jo", "(", "mok", "jeok", ")">>, <<" ">>,
                    <<"gye", "sok">> >>
LoosePool == {<<>>, LoosePool_Runs}

SeqsUpTo(S, n) == UNION {[1..k -> S] : k \in 0..n}

\* One readable file with any content of at most MaxParas blocks.
InitExtract ==
    /\ pc = "start"
    /\ \E blocks \in SeqsUpTo(BlockPool, MaxParas), loose \in LoosePool :
          listing = {[fname |-> <<"2", "-", "1", "_", "_", "a", "_", "b",
                                  ".", "X", "M", "L">>,
                      readable |-> TRUE,
                      blocks |-> blocks,
                      loose |-> loose]}
    /\ xml_files = <<>>
    /\ i = 0
    /\ paragraphs = <<>>
    /\ regulations = <<>>
    /\ SearchIdle
    /\ ExportIdle
    /\ gpt_text = <<>>
    /\ ParseIdle
    /\ SessionIdle

SpecExtract == InitExtract /\ [][NextIngest]_vars

\* A directory of at most MaxFiles of these files.
DirPool ==
    {[fname |-> <<"1", "-", "1", "_", "a", ".", "x", "m", "l">>,
      readable |-> TRUE,
      blocks |-> <<BlockHeading, BlockArticle1, BlockContinued, BlockArticle2>>,
      loose |-> <<>>],
     [fname |-> <<"1", "-", "2", "_", "b", ".", "x", "m", "l">>,
      readable |-> FALSE,
      blocks |-> <<BlockArticle1>>,
      loose |-> <<>>],
     [fname |-> <<"1", "_", "a", ".", "X", "M", "L">>,
      readable |-> TRUE,
      blocks |-> << << <<"a", " ", "gyu", "jeong">> >>, BlockNoBracket >>,
      loose |-> <<>>],
     [fname |-> <<"2", "-", "1", "_", "_", "b", ".", "x", "m", "l">>,
      readable |-> TRUE,
      blocks |-> <<BlockBlank>>,
      loose |-> LoosePool_Runs],
     [fname |-> <<"3", "_", "a", ".", "x", "m", "l">>,
      readable |-> FALSE,
      blocks |-> <<>>,
      loose |-> <<>>],
     [fname |-> <<"a", ".", "t", "x", "t">>,
      readable |-> TRUE,
      blocks |-> <<BlockArticle1>>,
      loose |-> <<>>]}

InitIngest ==
    /\ pc = "start"
    /\ listing \in {d \in SUBSET DirPool : Cardinality(d) <= MaxFiles}
    /\ xml_files = <<>>
    /\ i = 0
    /\ paragraphs = <<>>
    /\ regulations = <<>>
    /\ SearchIdle
    /\ ExportIdle
    /\ gpt_text = <<>>
    /\ ParseIdle
    /\ SessionIdle

SpecIngest == InitIngest /\ [][NextIngest]_vars

(***************************************************************************)
(* Properties of the ingestion.                                            *)
(***************************************************************************)
Last(s) == s[Len(s)]

\* The positions of the paragraphs that match the article pattern.
Boundaries(ps) == {k \in 1..Len(ps) : article_pattern(ps[k]) # <<>>}

NthBoundary(ps, n) ==
    CHOOSE b \in Boundaries(ps) :
        Cardinality({c \in Boundaries(ps) : c < b}) = n - 1

\* The last paragraph before the boundary that follows b, or the last one.
SegmentEnd(ps, b) ==
    IF \E c \in Boundaries(ps) : c > b
    THEN (CHOOSE c \in Boundaries(ps) :
              c > b /\ \A d \in Boundaries(ps) : d > b => c <= d) - 1
    ELSE Len(ps)

\* paragraphs and the last regulation stored come from the same file.
LastArticles == Last(regulations).articles

\* C1: extract_articles returns exactly one article per paragraph that
\* matches the pattern, in source order; its content is that paragraph and
\* the paragraphs after it up to the next matching one, joined with newline,
\* and number and title are the two groups matched in that paragraph.
C1_OneArticlePerBoundary ==
    regulations # <<>> =>
        /\ Len(LastArticles) = Cardinality(Boundaries(paragraphs))
        /\ \A n \in 1..Len(LastArticles) :
              LET b == NthBoundary(paragraphs, n)
                  m == article_pattern(paragraphs[b])[1]
              IN  /\ LastArticles[n].number = m.number
                  /\ LastArticles[n].title = m.title
                  /\ LastArticles[n].content =
                         Join(SubSeq(paragraphs, b, SegmentEnd(paragraphs, b)),
                              <<NL>>)

\* The scenario of the specification: a heading, article 1 with a second
\* paragraph, article 2.
C1_Witness ==
    /\ pc = "returned"
    /\ paragraphs = << <<"chong", "chik">>,
                       <<"je", "1", "jo", "(", "mok", "jeok", ")", " ", "i">>,
                       <<"gye", "sok">>,
                       <<"je", "2", "jo", "ui", "2", " ", "fw(", "jeok", "yong",
                         "fw)">> >>
    /\ LastArticles =
          << [number |-> <<"je", "1", "jo">>,
              title |-> <<"mok", "jeok">>,
              content |-> <<"je", "1", "jo", "(", "mok", "jeok", ")", " ", "i",
                            NL, "gye", "sok">>],
             [number |-> <<"je", "2", "jo", "ui", "2">>,
              title |-> <<"jeok", "yong">>,
              content |-> <<"je", "2", "jo", "ui", "2", " ", "fw(", "jeok",
                            "yong", "fw)">>] >>

\* C2: every paragraph is in at most one article: the contents of the
\* articles, joined, are the paragraphs from the first matching one on, so
\* the paragraphs before it are in no article; all paragraphs are in
\* full_text; with no matching paragraph there is no article, and full_text
\* is non-empty if there is a paragraph.
C2_ParagraphInAtMostOneArticle ==
    regulations # <<>> =>
        LET reg == Last(regulations)
            B == Boundaries(paragraphs)
            contents == [n \in 1..Len(reg.articles) |-> reg.articles[n].content]
        IN  /\ reg.full_text = Join(paragraphs, <<NL>>)
            /\ B = {} => /\ reg.articles = <<>>
                         /\ paragraphs # <<>> => reg.full_text # <<>>
            /\ B # {} => Join(contents, <<NL>>) =
                            Join(SubSeq(paragraphs, NthBoundary(paragraphs, 1),
                                        Len(paragraphs)), <<NL>>)

\* Two paragraphs before the first article, then two articles.
C2_Witness ==
    /\ pc = "returned"
    /\ Len(paragraphs) = 4
    /\ Boundaries(paragraphs) = {3, 4}
    /\ Len(LastArticles) = 2
    /\ Len(Last(regulations).full_text) >
           Len(LastArticles[1].content) + Len(LastArticles[2].content) + 1

\* C7: in every regulation of the result char_count is the length of
\* full_text and article_count the number of articles.
C7_CountsMatch ==
    \A k \in 1..Len(regulations) :
        /\ regulations[k].char_count = Len(regulations[k].full_text)
        /\ regulations[k].article_count = Len(regulations[k].articles)

\* A run that stored two regulations, one of them with two articles and
\* several paragraphs.
C7_Witness ==
    /\ pc = "returned"
    /\ Len(regulations) >= 2
    /\ \E k \in 1..Len(regulations) :
          /\ regulations[k].article_count = 2
          /\ regulations[k].char_count > 20

(***************************************************************************)
(* app.py: the search index, keyword_search and find_relevant_articles.    *)
(***************************************************************************)
DefaultTopK == 10
NameBonus == 10
RelevantLimit == 10

\* str.split() without argument: the maximal runs of non-whitespace.
RECURSIVE WordsFrom(_, _)
WordsFrom(s, cur) ==
    LET done == IF cur = <<>> THEN <<>> ELSE <<cur>>
    IN  IF s = <<>> THEN done
        ELSE IF Head(s) \in Whitespace THEN done \o WordsFrom(Tail(s), <<>>)
        ELSE WordsFrom(Tail(s), Append(cur, Head(s)))

Words(s) == WordsFrom(s, <<>>)

\* str.count(sub): the occurrences found from left to right, each search
\* starting after the previous occurrence.
RECURSIVE CountFrom(_, _, _)
CountFrom(s, sub, k) ==
    LET found == {j \in k..Len(s) : OccursAt(s, sub, j)}
    IN  IF found = {} THEN 0
        ELSE 1 + CountFrom(s, sub, Least(found) + Len(sub))

Count(s, sub) == IF sub = <<>> THEN Len(s) + 1 ELSE CountFrom(s, sub, 1)

\* s[:n]
Take(s, n) == IF n >= Len(s) THEN s ELSE SubSeq(s, 1, n)

\* list.sort(key = score, reverse = True): a stable sort, so records with
\* the same score keep the order they had.
\* The insertion of an unstable sort: x goes before the records of its score.
RECURSIVE InsertByScore_BeforeEqual(_, _)
InsertByScore_BeforeEqual(sorted, x) ==
    IF sorted = <<>> THEN <<x>>
    ELSE IF Head(sorted).score > x.score
    THEN <<Head(sorted)>> \o InsertByScore_BeforeEqual(Tail(sorted), x)
    ELSE <<x>> \o sorted

RECURSIVE InsertByScore(_, _)
InsertByScore(sorted, x) ==
    IF sorted = <<>> THEN <<x>>
    ELSE IF Head(sorted).score >= x.score
    THEN <<Head(sorted)>> \o InsertByScore(Tail(sorted), x)
    ELSE <<x>> \o sorted

RECURSIVE SortFrom(_, _)
SortFrom(list, sorted) ==
    IF list = <<>> THEN sorted
    ELSE SortFrom(Tail(list), InsertByScore(sorted, Head(list)))

SortByScore(list) == SortFrom(list, <<>>)

\* The index with its entries in the reverse order.
build_search_index_Reversed(regs) ==
    [k \in 1..Len(regs) |->
        [id |-> regs[Len(regs) + 1 - k].id,
         name |-> regs[Len(regs) + 1 - k].name,
         text_lower |-> Lower(regs[Len(regs) + 1 - k].full_text),
         article_count |-> regs[Len(regs) + 1 - k].article_count,
         char_count |-> regs[Len(regs) + 1 - k].char_count]]

build_search_index(regs) ==
    [k \in 1..Len(regs) |->
        [id |-> regs[k].id,
         name |-> regs[k].name,
         text_lower |-> Lower(regs[k].full_text),
         article_count |-> regs[k].article_count,
         char_count |-> regs[k].char_count]]

\* The inner loop of keyword_search: the score of one index entry.
RECURSIVE EntryScore(_, _)
EntryScore(entry, query_words) ==
    IF query_words = <<>> THEN 0
    ELSE LET word == Head(query_words)
             count == Count(entry.text_lower, word)
             gained == IF count > 0
                       THEN count + (IF Contains(Lower(entry.name), word)
                                     THEN NameBonus ELSE 0)
                       ELSE 0
         IN  gained + EntryScore(entry, Tail(query_words))

\* The outer loop without the test score > 0.
RECURSIVE ScoredFrom_KeepsZero(_, _, _, _)
ScoredFrom_KeepsZero(query_words, idx, regs, k) ==
    IF k > Len(idx) THEN <<>>
    ELSE <<[regulation |-> regs[k], score |-> EntryScore(idx[k], query_words)]>>
             \o ScoredFrom_KeepsZero(query_words, idx, regs, k + 1)

\* The outer loop: one result for each entry with a positive score.
RECURSIVE ScoredFrom(_, _, _, _)
ScoredFrom(query_words, idx, regs, k) ==
    IF k > Len(idx) THEN <<>>
    ELSE LET score == EntryScore(idx[k], query_words)
         IN  (IF score > 0
              THEN <<[regulation |-> regs[k], score |-> score]>>
              ELSE <<>>) \o ScoredFrom(query_words, idx, regs, k + 1)

keyword_search(q, idx, regs, k) ==
    Take(SortByScore(ScoredFrom(Words(Lower(q)), idx, regs, 1)), k)

\* sum(content_lower.count(w) for w in query_words)
RECURSIVE ContentScore(_, _)
ContentScore(content_lower, query_words) ==
    IF query_words = <<>> THEN 0
    ELSE Count(content_lower, Head(query_words))
             + ContentScore(content_lower, Tail(query_words))

RECURSIVE RelevantFrom(_, _)
RelevantFrom(articles, query_words) ==
    IF articles = <<>> THEN <<>>
    ELSE LET article == Head(articles)
             score == ContentScore(Lower(article.content), query_words)
         IN  (IF score > 0
              THEN <<[number |-> article.number,
                      title |-> article.title,
                      content |-> article.content,
                      score |-> score]>>
              ELSE <<>>) \o RelevantFrom(Tail(articles), query_words)

\* find_relevant_articles returning the whole sorted list.
find_relevant_articles_NoLimit(reg, q) ==
    SortByScore(RelevantFrom(reg.articles, Words(Lower(q))))

find_relevant_articles(reg, q) ==
    Take(SortByScore(RelevantFrom(reg.articles, Words(Lower(q)))), RelevantLimit)

\* main: the corpus is loaded and indexed once.
BuildSearchIndex ==
    /\ pc = "loaded"
    /\ index' = build_search_index(regulations)
    /\ pc' = "ready"
    /\ UNCHANGED <<query, top_k, results, regulation, relevant>>
    /\ UNCHANGED nonSearchVars

\* The queries: empty, blank, a word no text holds, one word, two words
\* with capitals and a double space, a word that overlaps itself, part of a
\* word.
QueryPool == {<<>>,
              <<" ", " ">>,
              <<"z", "z">>,
              <<"yeon", "gu", "bi">>,
              <<"A", "I", " ", " ", "yeon", "gu", "bi">>,
              <<"a", "a">>,
              <<"yeon", "gu">>}

TopKs == {1, 2, DefaultTopK}

\* page_search, page_amendment: a query is submitted and searched.
KeywordSearch ==
    /\ pc = "ready"
    /\ \E q \in QueryPool, k \in TopKs :
          /\ query' = q
          /\ top_k' = k
          /\ results' = keyword_search(q, index, regulations, k)
    /\ regulation' = 0
    /\ relevant' = <<>>
    /\ UNCHANGED <<pc, index>>
    /\ UNCHANGED nonSearchVars

\* The lookup with the score written into the article of the corpus.
FindRelevantArticles_ScoresInPlace ==
    /\ pc = "ready"
    /\ \E r \in 1..Len(results) :
          LET reg == results[r].regulation
              scored == [a \in 1..Len(reg.articles) |->
                            LET score == ContentScore(Lower(reg.articles[a].content),
                                                      Words(Lower(query)))
                            IN  IF score > 0
                                THEN [number |-> reg.articles[a].number,
                                      title |-> reg.articles[a].title,
                                      content |-> reg.articles[a].content,
                                      score |-> score]
                                ELSE reg.articles[a]]
          IN  /\ regulation' = r
              /\ relevant' = find_relevant_articles(reg, query)
              /\ regulations' = [k \in 1..Len(regulations) |->
                                    IF regulations[k] = reg
                                    THEN [reg EXCEPT !.articles = scored]
                                    ELSE regulations[k]]
    /\ UNCHANGED <<pc, index, query, top_k, results>>
    /\ UNCHANGED <<ingestLocals, exportVars, parseVars, sessionVars>>

\* The pages then look for the articles of a regulation of the results.
FindRelevantArticles ==
    /\ pc = "ready"
    /\ \E r \in 1..Len(results) :
          /\ regulation' = r
          /\ relevant' = find_relevant_articles(results[r].regulation, query)
    /\ UNCHANGED <<pc, index, query, top_k, results>>
    /\ UNCHANGED nonSearchVars

NextSearch == BuildSearchIndex \/ KeywordSearch \/ FindRelevantArticles

\* parse_all_xml as a whole: what regulations.json holds.
RECURSIVE ParseFrom(_, _, _, _)
ParseFrom(dir, files, n, regs) ==
    IF n > Len(files) THEN regs
    ELSE LET file == CHOOSE f \in dir : f.fname = files[n]
         IN  ParseFrom(dir, files, n + 1,
                       IF file.readable
                       THEN Append(regs, MakeRegulation(n, files[n], file))
                       ELSE regs)

parse_all_xml(dir) ==
    ParseFrom(dir, Sorted({f.fname : f \in {g \in dir : IsXml(g.fname)}}), 1, <<>>)

\* The files of the corpora that are searched.
RECURSIVE Repeat(_, _)
Repeat(s, n) == IF n = 0 THEN <<>> ELSE s \o Repeat(s, n - 1)

\* Article k, with "AI" k % 3 times in its text.
ArticleBlock(k) ==
    << <<"je">> \o Decimal(k) \o <<"jo", "(", "t", ")">>
           \o Repeat(<<" ", "A", "I">>, k % 3) >>

SearchDirPool ==
    {\* named by its first paragraph, which holds the query word
     [fname |-> <<"1", "_", "a", ".", "x", "m", "l">>,
      readable |-> TRUE,
      blocks |-> << << <<"yeon", "gu", "bi", " ", "gyu", "jeong">> >>,
                    << <<"yeon", "gu", "bi", " ", "yeon", "gu", "bi">> >> >>,
      loose |-> <<>>],
     \* named by its file name
     [fname |-> <<"2", "_", "b", ".", "x", "m", "l">>,
      readable |-> TRUE,
      blocks |-> << << <<"A", "I", " ", "yeon", "gu", "bi">> >> >>,
      loose |-> <<>>],
     \* named by its file name, and the name is not in the text
     [fname |-> <<"3", "_", "yeon", "gu", "bi", ".", "x", "m", "l">>,
      readable |-> TRUE,
      blocks |-> << << <<"A", "I", " ", "gyo", "yuk">> >> >>,
      loose |-> <<>>],
     [fname |-> <<"4", "_", "b", ".", "x", "m", "l">>,
      readable |-> TRUE,
      blocks |-> << << <<"yeon", "gu", "bi", " ", "a", "a", "a">> >> >>,
      loose |-> <<>>],
     [fname |-> <<"6", "_", "b", ".", "x", "m", "l">>,
      readable |-> TRUE,
      blocks |-> << << <<"gyo", "yuk", " ", "yeon", "gu", "bi">> >> >>,
      loose |-> <<>>],
     \* sixteen articles, eleven of them with "AI" in the text
     [fname |-> <<"5", "_", "A", "I", ".", "x", "m", "l">>,
      readable |-> TRUE,
      blocks |-> [k \in 1..16 |-> ArticleBlock(k)],
      loose |-> <<>>]}

InitSearch ==
    /\ pc = "loaded"
    /\ \E dir \in {d \in SUBSET SearchDirPool : Cardinality(d) <= MaxDocs} :
          regulations = parse_all_xml(dir)
    /\ IngestIdle
    /\ SearchIdle
    /\ ExportIdle
    /\ gpt_text = <<>>
    /\ ParseIdle
    /\ SessionIdle

SpecSearch == InitSearch /\ [][NextSearch]_vars

(***************************************************************************)
(* Properties of the search.                                               *)
(***************************************************************************)
Searched == pc = "ready" /\ top_k # 0

QueryWords == Words(Lower(query))

RECURSIVE SumSeq(_)
SumSeq(nums) == IF nums = <<>> THEN 0 ELSE Head(nums) + SumSeq(Tail(nums))

\* The score the specification gives a regulation: the occurrences of
\* every query word in the lowercased text, and 10 for every query word
\* that is in the lowercased name.
SpecifiedScore(reg) ==
    LET WordScore(w) == Count(Lower(reg.full_text), w)
                            + (IF Contains(Lower(reg.name), w) THEN 10 ELSE 0)
    IN  SumSeq([n \in 1..Len(QueryWords) |-> WordScore(QueryWords[n])])

InResults(reg) == \E a \in 1..Len(results) : results[a].regulation = reg

\* C3: keyword_search gives every regulation the sum of the occurrence
\* counts of the query words in its text plus 10 for each query word that
\* is in its name, whether or not that word occurs in the text: a result
\* carries that score, and a regulation with such a positive score is in
\* the results unless top_k cut it off.
C3_NameBonusForEveryWordInName ==
    Searched =>
        /\ \A a \in 1..Len(results) :
              results[a].score = SpecifiedScore(results[a].regulation)
        /\ \A k \in 1..Len(regulations) :
              SpecifiedScore(regulations[k]) > 0 /\ Len(results) < top_k
                  => InResults(regulations[k])

\* The score keyword_search computed for the regulation at position k.
ScoreAt(k) == EntryScore(index[k], QueryWords)

PositionOf(reg) == CHOOSE k \in 1..Len(regulations) : regulations[k] = reg

\* C4: keyword_search returns at most top_k results, by non-increasing
\* score, results of equal score in corpus order, and no regulation left
\* out has a higher score than a returned one.
C4_TopKStableDescending ==
    Searched =>
        /\ Len(results) <= top_k
        /\ \A a, b \in 1..Len(results) :
              a < b =>
                  /\ results[a].score >= results[b].score
                  /\ results[a].score = results[b].score
                         => PositionOf(results[a].regulation)
                                < PositionOf(results[b].regulation)
        /\ \A k \in 1..Len(regulations), a \in 1..Len(results) :
              ~InResults(regulations[k]) => ScoreAt(k) <= results[a].score

\* Two results tie, and top_k cuts off a regulation with a positive score.
C4_Witness ==
    /\ Searched
    /\ Len(results) = top_k
    /\ \E a, b \in 1..Len(results) :
          a < b /\ results[a].score = results[b].score
    /\ \E k \in 1..Len(regulations) :
          ~InResults(regulations[k]) /\ ScoreAt(k) > 0

\* C5: a query with no word, and a query none of whose words is in any
\* text, give no result; every result has a score above 0.
C5_NoMatchNoResult ==
    Searched =>
        /\ QueryWords = <<>> => results = <<>>
        /\ (\A k \in 1..Len(regulations), n \in 1..Len(QueryWords) :
               ~Contains(Lower(regulations[k].full_text), QueryWords[n]))
              => results = <<>>
        /\ \A a \in 1..Len(results) : results[a].score > 0

\* A corpus of three regulations searched for a word none of them holds.
C5_Witness ==
    /\ Searched
    /\ Len(regulations) = 3
    /\ query = <<"z", "z">>
    /\ results = <<>>

\* The regulation last passed to find_relevant_articles.
Looked == Searched /\ regulation # 0
LookedReg == results[regulation].regulation

ArticleScore(article) ==
    LET WordScore(w) == Count(Lower(article.content), w)
    IN  SumSeq([n \in 1..Len(QueryWords) |-> WordScore(QueryWords[n])])

Scored(article) ==
    [number |-> article.number, title |-> article.title,
     content |-> article.content, score |-> ArticleScore(article)]

PositiveArticles == {n \in 1..Len(LookedReg.articles) :
                        ArticleScore(LookedReg.articles[n]) > 0}

\* The position in the regulation of the k-th article returned.
ArticlePosition(k) ==
    CHOOSE n \in 1..Len(LookedReg.articles) :
        Scored(LookedReg.articles[n]) = relevant[k]

\* C6: find_relevant_articles returns articles of the regulation, each
\* with the sum of the occurrence counts of the query words in its
\* lowercased content (no bonus for the name) and that sum above 0; at most
\* 10 of them, the best ones, by non-increasing score and in article order
\* among equal scores; none for a regulation without articles.
C6_RelevantArticles ==
    Looked =>
        /\ \A k \in 1..Len(relevant) :
              /\ \E n \in PositiveArticles :
                     Scored(LookedReg.articles[n]) = relevant[k]
        /\ Len(relevant) = IF Cardinality(PositiveArticles) < 10
                           THEN Cardinality(PositiveArticles) ELSE 10
        /\ \A a, b \in 1..Len(relevant) :
              a < b =>
                  /\ relevant[a].score >= relevant[b].score
                  /\ relevant[a].score = relevant[b].score
                         => ArticlePosition(a) < ArticlePosition(b)
        /\ \A n \in PositiveArticles, k \in 1..Len(relevant) :
              (\A j \in 1..Len(relevant) :
                   relevant[j] # Scored(LookedReg.articles[n]))
                  => ArticleScore(LookedReg.articles[n]) <= relevant[k].score
        /\ LookedReg.articles = <<>> => relevant = <<>>

\* Eleven articles hold a query word, ten are returned, with ties, and the
\* name of the regulation holds the word too.
C6_Witness ==
    /\ Looked
    /\ Cardinality(PositiveArticles) > 10
    /\ Len(relevant) = 10
    /\ relevant[1].score = relevant[2].score
    /\ relevant[1].score > relevant[10].score
    /\ \E n \in 1..Len(QueryWords) : Contains(Lower(LookedReg.name), QueryWords[n])

(***************************************************************************)
(* hwpml_exporter.py, _build_head: the HEAD of a document.  Only the title *)
(* of the summary (and its date, one token here) depends on the document.  *)
(***************************************************************************)
FONT_BODY == "[malgun gothic]"
FONT_TITLE == "[malgun gothic]"
FONT_SIZE_BODY == "1000"
FONT_SIZE_TITLE == "1600"
FONT_SIZE_HEADING == "1300"
FONT_SIZE_SMALL == "900"

\* A FONTFACE of the list of face names: the body font and the title font.
FontFace(lang) ==
    [Lang |-> lang, Count |-> "2",
     fonts |-> <<[Id |-> "0", Name |-> FONT_BODY, Type |-> "ttf"],
                 [Id |-> "1", Name |-> FONT_TITLE, Type |-> "ttf"]>>]

\* A CHARSHAPE: bold is "" where the attribute is not set.
CharShapeOf(id, bold, fontid, size) ==
    [Id |-> id, Bold |-> bold,
     FONTID |-> [Hangul |-> fontid, Latin |-> fontid, Hanja |-> fontid],
     RATIO |-> [Hangul |-> "100", Latin |-> "100", Hanja |-> "100"],
     SIZE |-> [Hangul |-> size, Latin |-> size, Hanja |-> size]]

\* A PARASHAPE: an attribute the code does not set is "".
ParaShapeOf(id, align, spacing, top, bottom) ==
    [Id |-> id, Align |-> align,
     LINESPACING |-> [Type |-> "Percent", Value |-> spacing],
     MARGIN |-> [Top |-> top, Bottom |-> bottom]]

DocSummary(doc_title) ==
    [TITLE |-> doc_title, AUTHOR |-> <<"[author]">>, DATE |-> <<"[today]">>]

FaceNameList ==
    <<FontFace("Hangul"), FontFace("Latin"), FontFace("Hanja"), FontFace("Symbol")>>

ParaShapeList ==
    <<ParaShapeOf("0", "", "160", "", ""),
      ParaShapeOf("1", "Center", "130", "", "400"),
      ParaShapeOf("2", "", "150", "300", "100")>>

\* The head without the small character style (Id 4).
_build_head_NoSmallShape(doc_title) ==
    [SecCnt |-> "1",
     DOCSUMMARY |-> DocSummary(doc_title),
     MAPPINGTABLE |->
         [FACENAMELIST |-> FaceNameList,
          CHARSHAPELIST |->
              <<CharShapeOf("0", "", "0", FONT_SIZE_BODY),
                CharShapeOf("1", "true", "1", FONT_SIZE_TITLE),
                CharShapeOf("2", "true", "0", FONT_SIZE_HEADING),
                CharShapeOf("3", "true", "0", FONT_SIZE_BODY)>>,
          PARASHAPELIST |-> ParaShapeList]]

_build_head(doc_title) ==
    [SecCnt |-> "1",
     DOCSUMMARY |-> DocSummary(doc_title),
     MAPPINGTABLE |->
         [FACENAMELIST |-> FaceNameList,
          CHARSHAPELIST |->
              <<CharShapeOf("0", "", "0", FONT_SIZE_BODY),
                CharShapeOf("1", "true", "1", FONT_SIZE_TITLE),
                CharShapeOf("2", "true", "0", FONT_SIZE_HEADING),
                CharShapeOf("3", "true", "0", FONT_SIZE_BODY),
                CharShapeOf("4", "", "0", FONT_SIZE_SMALL)>>,
          PARASHAPELIST |-> ParaShapeList]]

(***************************************************************************)
(* hwpml_exporter.py: the body of a document is the sequence of the <P>    *)
(* elements appended to its SECTION.  An attribute holds the string the    *)
(* code sets; a fixed Korean text is one token.                            *)
(***************************************************************************)
MakeParagraph(text, charshape, parashape) ==
    [kind |-> "para", ParaShape |-> parashape, Style |-> "0",
     CharShape |-> charshape, text |-> text]

\* _make_paragraph(section, text, charshape = "0", parashape = "0")
_make_paragraph(sect, text, charshape, parashape) ==
    Append(sect, MakeParagraph(text, charshape, parashape))

\* _make_empty_para(section): a TEXT element without CHAR
_make_empty_para(sect) ==
    Append(sect, [kind |-> "empty", ParaShape |-> "0", Style |-> "0",
                  CharShape |-> "0"])

\* The whole text of a data cell in one paragraph.
CellParagraphs_OneParagraph(cell_text) ==
    <<[ParaShape |-> "0", Style |-> "0", CharShape |-> "0", text |-> cell_text]>>

\* The paragraphs of a data cell: one for each line of the text.
CellParagraphs(cell_text) ==
    LET lines == IF cell_text # <<>> THEN Split(cell_text, NL) ELSE << <<>> >>
    IN  [k \in 1..Len(lines) |->
            [ParaShape |-> "0", Style |-> "0", CharShape |-> "0",
             text |-> lines[k]]]

HeaderRow(headers, col_widths) ==
    [ci \in 1..Len(headers) |->
        [ColAddr |-> Decimal(ci - 1), RowAddr |-> <<"0">>,
         ColSpan |-> "1", RowSpan |-> "1",
         Width |-> Decimal(col_widths[ci]), Header |-> "true",
         paragraphs |-> <<[ParaShape |-> "0", Style |-> "0", CharShape |-> "3",
                           text |-> headers[ci]]>>]]

\* The data row with index ri (from 0).
DataRow(ri, row_data, col_widths) ==
    [ci \in 1..Len(row_data) |->
        [ColAddr |-> Decimal(ci - 1), RowAddr |-> Decimal(ri + 1),
         ColSpan |-> "1", RowSpan |-> "1",
         Width |-> Decimal(col_widths[ci]), Header |-> "",
         paragraphs |-> CellParagraphs(row_data[ci])]]

\* col_widths = None is <<>>: the total width split evenly.
WidthsOrDefault(headers, col_widths) ==
    IF col_widths = <<>>
    THEN [ci \in 1..Len(headers) |-> 16000 \div Len(headers)]
    ELSE col_widths

\* The table with RowCount = len(rows), the header row forgotten.
_make_table_CountsDataRows(sect, headers, data_rows, col_widths) ==
    LET widths == WidthsOrDefault(headers, col_widths)
    IN  Append(sect,
               [kind |-> "table", ParaShape |-> "0", Style |-> "0",
                CharShape |-> "0",
                RowCount |-> Decimal(Len(data_rows)),
                ColCount |-> Decimal(Len(headers)),
                rows |-> <<HeaderRow(headers, widths)>>
                             \o [ri \in 1..Len(data_rows) |->
                                    DataRow(ri - 1, data_rows[ri], widths)]])

_make_table(sect, headers, data_rows, col_widths) ==
    LET num_cols == Len(headers)
        num_rows == Len(data_rows) + 1
        widths == WidthsOrDefault(headers, col_widths)
    IN  Append(sect,
               [kind |-> "table", ParaShape |-> "0", Style |-> "0",
                CharShape |-> "0",
                RowCount |-> Decimal(num_rows),
                ColCount |-> Decimal(num_cols),
                rows |-> <<HeaderRow(headers, widths)>>
                             \o [ri \in 1..Len(data_rows) |->
                                    DataRow(ri - 1, data_rows[ri], widths)]])

\* dict.get(key, ""), a dict being a function on its keys.
Get(dict, key) == IF key \in DOMAIN dict THEN dict[key] ELSE <<>>

\* create_amendment_doc: field_map, then the body block by block.
field_map == << <<"background", <<"[label background]">> >>,
                <<"core_content", <<"[label core content]">> >>,
                <<"related_regs", <<"[label related regulations]">> >>,
                <<"department", <<"[label department]">> >>,
                <<"cooperating", <<"[label cooperating]">> >>,
                <<"schedule", <<"[label schedule]">> >>,
                <<"target", <<"[label target]">> >> >>

RECURSIVE SummaryRows_KeepsEmpty(_, _)
SummaryRows_KeepsEmpty(meta, fields) ==
    IF fields = <<>> THEN <<>>
    ELSE << <<Head(fields)[2], Get(meta, Head(fields)[1])>> >>
             \o SummaryRows_KeepsEmpty(meta, Tail(fields))

RECURSIVE SummaryRows(_, _)
SummaryRows(meta, fields) ==
    IF fields = <<>> THEN <<>>
    ELSE LET key == Head(fields)[1]
             label == Head(fields)[2]
         IN  (IF key \in DOMAIN meta /\ meta[key] # <<>>
              THEN << <<label, meta[key]>> >>
              ELSE <<>>) \o SummaryRows(meta, Tail(fields))

\* "if metadata:" is false for None and for the empty dict, both <<>> here.
SummaryBlocks(sect, meta) ==
    IF DOMAIN meta = {} THEN sect
    ELSE LET headed == _make_paragraph(sect, <<"[heading summary]">>, "2", "2")
             summary_rows == SummaryRows(meta, field_map)
         IN  IF summary_rows # <<>>
             THEN _make_empty_para(
                      _make_table(headed,
                                  << <<"[header item]">>, <<"[header content]">> >>,
                                  summary_rows, <<3000, 13000>>))
             ELSE headed

\* The document with the summary after the comparison table.
create_amendment_doc_SummaryLast(doc_title, data_rows, meta) ==
    LET s1 == _make_paragraph(<<>>, doc_title, "1", "1")
        s2 == _make_paragraph(s1, <<"[date: today]">>, "4", "0")
        s3 == _make_paragraph(s2, <<"[author line]">>, "4", "0")
        s4 == _make_empty_para(s3)
        s6 == _make_paragraph(s4, <<"[heading comparison]">>, "2", "2")
        table_rows == [n \in 1..Len(data_rows) |->
                          <<Get(data_rows[n], "current"),
                            Get(data_rows[n], "revised")>>]
        s7 == _make_table(s6,
                          << <<"[header current]">>, <<"[header revised]">> >>,
                          table_rows, <<8000, 8000>>)
        s8 == SummaryBlocks(_make_empty_para(s7), meta)
        s9 == _make_paragraph(s8, <<"[heading addenda]">>, "2", "2")
        s10 == _make_paragraph(s9, <<"[addendum 1: effective date]">>, "0", "0")
        s11 == _make_paragraph(s10, <<"[addendum 2: transitional]">>, "0", "0")
        s12 == _make_empty_para(s11)
    IN  _make_paragraph(s12, <<"[disclaimer]">>, "4", "0")

create_amendment_doc(doc_title, data_rows, meta) ==
    LET s1 == _make_paragraph(<<>>, doc_title, "1", "1")
        s2 == _make_paragraph(s1, <<"[date: today]">>, "4", "0")
        s3 == _make_paragraph(s2, <<"[author line]">>, "4", "0")
        s4 == _make_empty_para(s3)
        s5 == SummaryBlocks(s4, meta)
        s6 == _make_paragraph(s5, <<"[heading comparison]">>, "2", "2")
        table_rows == [n \in 1..Len(data_rows) |->
                          <<Get(data_rows[n], "current"),
                            Get(data_rows[n], "revised")>>]
        s7 == _make_table(s6,
                          << <<"[header current]">>, <<"[header revised]">> >>,
                          table_rows, <<8000, 8000>>)
        s8 == _make_empty_para(s7)
        s9 == _make_paragraph(s8, <<"[heading addenda]">>, "2", "2")
        s10 == _make_paragraph(s9, <<"[addendum 1: effective date]">>, "0", "0")
        s11 == _make_paragraph(s10, <<"[addendum 2: transitional]">>, "0", "0")
        s12 == _make_empty_para(s11)
    IN  _make_paragraph(s12, <<"[disclaimer]">>, "4", "0")

(***************************************************************************)
(* create_analysis_doc                                                     *)
(***************************************************************************)
\* line.lstrip("#")
RECURSIVE LStripHashes(_)
LStripHashes(s) ==
    IF s # <<>> /\ Head(s) = "#" THEN LStripHashes(Tail(s)) ELSE s

\* The least position >= k where "**" occurs in s, or 0.
FirstBold(s, k) ==
    LET found == {j \in k..Len(s) : OccursAt(s, <<"*", "*">>, j)}
    IN  IF found = {} THEN 0 ELSE Least(found)

\* re.sub(r"\*\*(.*?)\*\*", r"\1", line): leftmost pairs, shortest first.
RECURSIVE RemoveBold(_)
RemoveBold(s) ==
    LET open == FirstBold(s, 1)
        close == IF open = 0 THEN 0 ELSE FirstBold(s, open + 2)
    IN  IF close = 0 THEN s
        ELSE Slice(s, 1, open - 1) \o Slice(s, open + 2, close - 1)
                 \o RemoveBold(Slice(s, close + 2, Len(s)))

IsBullet(line) == StartsWith(line, <<"-", " ">>) \/ StartsWith(line, <<"*", " ">>)

\* The body of the loop over the lines of the analysis text.
AnalysisLine_KeepsTableRows(sect, raw) ==
    LET line == Strip(raw)
    IN  IF line = <<>> THEN _make_empty_para(sect)
        ELSE IF StartsWith(line, <<"#", "#">>)
        THEN _make_paragraph(sect, Strip(LStripHashes(line)), "2", "2")
        ELSE IF IsBullet(line)
        THEN _make_paragraph(sect, <<" ", " ", "[dot]", " ">>
                                       \o Slice(line, 3, Len(line)), "0", "0")
        ELSE _make_paragraph(sect, RemoveBold(line), "0", "0")

AnalysisLine(sect, raw) ==
    LET line == Strip(raw)
    IN  IF line = <<>> THEN _make_empty_para(sect)
        ELSE IF StartsWith(line, <<"#", "#">>)
        THEN _make_paragraph(sect, Strip(LStripHashes(line)), "2", "2")
        ELSE IF IsBullet(line)
        THEN _make_paragraph(sect, <<" ", " ", "[dot]", " ">>
                                       \o Slice(line, 3, Len(line)), "0", "0")
        ELSE IF StartsWith(line, <<"|">>) THEN sect
        ELSE _make_paragraph(sect, RemoveBold(line), "0", "0")

RECURSIVE AnalysisLines(_, _)
AnalysisLines(sect, lines) ==
    IF lines = <<>> THEN sect
    ELSE AnalysisLines(AnalysisLine(sect, Head(lines)), Tail(lines))

\* The list of related regulations: "if regulations:" is false for None and
\* for the empty list, both <<>> here.
RelatedBlocks(sect, regs) ==
    IF regs = <<>> THEN sect
    ELSE _make_table(
             _make_paragraph(sect, <<"[heading related regulations]">>, "2", "2"),
             << <<"[header name]">>, <<"[header articles]">>, <<"[header score]">> >>,
             [n \in 1..Len(regs) |->
                 <<regs[n].name, Decimal(regs[n].article_count),
                   Decimal(regs[n].score)>>],
             <<9000, 3000, 4000>>)

create_analysis_doc(doc_title, search_query, analysis_text, regs) ==
    LET s1 == _make_paragraph(<<>>, doc_title, "1", "1")
        s2 == _make_paragraph(s1, <<"[date: today, query: ">> \o search_query
                                      \o <<"]">>, "4", "0")
        s3 == _make_empty_para(s2)
        s4 == _make_paragraph(s3, <<"[heading analysis]">>, "2", "2")
        s5 == AnalysisLines(s4, Split(analysis_text, NL))
        s6 == _make_empty_para(s5)
        s7 == RelatedBlocks(s6, regs)
        s8 == _make_empty_para(s7)
    IN  _make_paragraph(s8, <<"[disclaimer analysis]">>, "4", "0")

(***************************************************************************)
(* create_qa_doc                                                           *)
(***************************************************************************)
\* The loop over the lines of an answer: a paragraph for each line that is
\* not blank, its bold markers removed.
RECURSIVE AnswerLines(_, _)
AnswerLines(sect, lines) ==
    IF lines = <<>> THEN sect
    ELSE LET line == Strip(Head(lines))
         IN  AnswerLines(IF line # <<>>
                         THEN _make_paragraph(sect, RemoveBold(line), "0", "0")
                         ELSE sect,
                         Tail(lines))

\* The loop over enumerate(qa_pairs, 1), from the pair numbered n.
RECURSIVE QaBlocks(_, _, _)
QaBlocks(sect, qa_pairs, n) ==
    IF n > Len(qa_pairs) THEN sect
    ELSE LET qa == qa_pairs[n]
             s1 == _make_paragraph(sect,
                                   <<"Q">> \o Decimal(n) \o <<".", " ">>
                                       \o qa.question, "2", "2")
             s2 == AnswerLines(s1, Split(qa.answer, NL))
         IN  QaBlocks(_make_empty_para(s2), qa_pairs, n + 1)

\* The title of the record of a regulation.
QaTitle(regulation_name) == regulation_name \o <<" ", "[Q&A record]">>

create_qa_doc(regulation_name, qa_pairs) ==
    LET s1 == _make_paragraph(<<>>, QaTitle(regulation_name), "1", "1")
        s2 == _make_paragraph(s1, <<"[date: today]">>, "4", "0")
        s3 == _make_empty_para(s2)
        s4 == QaBlocks(s3, qa_pairs, 1)
    IN  _make_paragraph(s4, <<"[disclaimer answers]">>, "4", "0")

(***************************************************************************)
(* parse_gpt_amendment                                                     *)
(***************************************************************************)
HeaderCurrent == {<<"hyeon", "haeng">>, <<"hyeon", " ", "haeng">>,
                  <<"hanja-hyeon", "hanja-haeng">>}
HeaderRevised == {<<"gae", "jeong", "an">>, <<"gae", "jeong", " ", "an">>,
                  <<"hanja-gae", "hanja-jeong", "hanja-an">>}

\* re.match(r"^\|[\s\-:]+\|", line)
SeparatorMatch(line) ==
    LET e == RunEnd(line, 2, Whitespace \cup {"-", ":"})
    IN  /\ Len(line) >= 1
        /\ line[1] = "|"
        /\ e > 2
        /\ e <= Len(line)
        /\ line[e] = "|"

\* [c.strip() for c in line.split("|")[1:-1]]
Cells(line) ==
    LET pieces == Split(line, "|")
        inner == Slice(pieces, 2, Len(pieces) - 1)
    IN  [k \in 1..Len(inner) |-> Strip(inner[k])]

\* The first loop: the rows of the markdown table.
RECURSIVE TableRows(_)
TableRows(lines) ==
    IF lines = <<>> THEN <<>>
    ELSE LET line == Strip(Head(lines))
             cells == Cells(line)
             emitted ==
                 IF ~StartsWith(line, <<"|">>) THEN <<>>
                 ELSE IF SeparatorMatch(line) THEN <<>>
                 ELSE IF Len(cells) >= 2
                 THEN IF cells[1] \in HeaderCurrent \/ cells[2] \in HeaderRevised
                      THEN <<>>
                      ELSE IF cells[1] # <<>> \/ cells[2] # <<>>
                      THEN <<[current |-> cells[1], revised |-> cells[2]]>>
                      ELSE <<>>
                 ELSE <<>>
         IN  emitted \o TableRows(Tail(lines))

\* The second loop: the text after a "current" and after a "revised" marker.
HasMarkerPunctuation(line) == Contains(line, <<":">>) \/ Contains(line, <<"]]">>)

RECURSIVE Accumulate(_, _, _, _)
Accumulate(lines, mode, current_text, revised_text) ==
    IF lines = <<>> THEN <<current_text, revised_text>>
    ELSE LET line == Head(lines)
         IN  IF Contains(line, <<"hyeon", "haeng">>) /\ HasMarkerPunctuation(line)
             THEN Accumulate(Tail(lines), "current", current_text, revised_text)
             ELSE IF Contains(line, <<"gae", "jeong">>) /\ HasMarkerPunctuation(line)
             THEN Accumulate(Tail(lines), "revised", current_text, revised_text)
             ELSE IF mode = "current"
             THEN Accumulate(Tail(lines), mode,
                             current_text \o line \o <<NL>>, revised_text)
             ELSE IF mode = "revised"
             THEN Accumulate(Tail(lines), mode,
                             current_text, revised_text \o line \o <<NL>>)
             ELSE Accumulate(Tail(lines), mode, current_text, revised_text)

BlockRows_StartsInCurrent(lines) ==
    LET texts == Accumulate(lines, "current", <<>>, <<>>)
    IN  IF texts[1] # <<>> \/ texts[2] # <<>>
        THEN <<[current |-> Strip(texts[1]), revised |-> Strip(texts[2])]>>
        ELSE <<>>

BlockRows(lines) ==
    LET texts == Accumulate(lines, "None", <<>>, <<>>)
    IN  IF texts[1] # <<>> \/ texts[2] # <<>>
        THEN <<[current |-> Strip(texts[1]), revised |-> Strip(texts[2])]>>
        ELSE <<>>

parse_gpt_amendment_AlwaysFallsBack(text) ==
    LET lines == Split(text, NL)
    IN  TableRows(lines) \o BlockRows(lines)

parse_gpt_amendment(text) ==
    LET lines == Split(text, NL)
        table == TableRows(lines)
    IN  IF table = <<>> THEN BlockRows(lines) ELSE table

(***************************************************************************)
(* The exporter at work: a fresh HwpmlExporter builds one document.        *)
(***************************************************************************)
CellPool == {<<>>, <<"a">>, <<"a", NL, "b", NL>>}

\* The row dicts: both keys, or "revised" missing.
RowPool == {[current |-> c, revised |-> r] : c \in CellPool, r \in CellPool}
               \cup {[current |-> <<"a">>]}

\* No metadata; the metadata page_amendment passes (its department is
\* always empty); a dict without any known field; a dict with two fields
\* and an empty one.
MetaPool == {<<>>,
             [background |-> <<"[background]">>,
              core_content |-> <<"i", "d", "e", "a">>,
              related_regs |-> <<"a", ",", " ", "b">>,
              department |-> <<>>,
              cooperating |-> <<"[cooperating]">>,
              schedule |-> <<"[schedule]">>,
              target |-> <<"[target]">>],
             [note |-> <<"x">>],
             [target |-> <<"t">>, schedule |-> <<>>, background |-> <<"b", NL, "c">>]}

CreateAmendmentDoc ==
    /\ pc = "new"
    /\ \E t \in {<<"a", " ", "[amendment]">>},
          r \in SeqsUpTo(RowPool, MaxRows),
          m \in MetaPool :
          /\ title' = t
          /\ amendment_rows' = r
          /\ metadata' = m
          /\ head' = _build_head(t)
          /\ section' = create_amendment_doc(t, r, m)
    /\ pc' = "created"
    /\ UNCHANGED nonExportVars

\* The lines of an analysis: a blank line, an indented heading, a bullet
\* with bold text, a starred bullet, a table row, a plain line with a pair
\* of bold markers and a lone one, a line with one hash, a line of bold.
AnalysisLinePool ==
    {<<" ">>,
     <<" ", "#", "#", "#", " ", "a">>,
     <<"-", " ", "a", " ", "*", "*", "b", "*", "*">>,
     <<"*", " ", "a">>,
     <<"|", " ", "a", " ", "|">>,
     <<"a", " ", "*", "*", "b", "*", "*", " ", "c", " ", "*", "*", "d">>,
     <<"#", " ", "a">>,
     <<"*", "*", "a", "*", "*">>}

\* The regulations argument: none, or what page_search passes.
RelatedPool == {<<>>, <<[name |-> <<"a">>, article_count |-> 12, score |-> 3]>>}

\* create_analysis_doc on an analysis text of at most MaxAnalysisLines;
\* gpt_text holds the analysis text.
CreateAnalysisDoc ==
    /\ pc = "new"
    /\ \E lines \in SeqsUpTo(AnalysisLinePool, MaxAnalysisLines) \ {<<>>},
          regs \in RelatedPool :
          /\ title' = <<"[analysis]", " ", "A", "I">>
          /\ gpt_text' = Join(lines, <<NL>>)
          /\ head' = _build_head(title')
          /\ section' = create_analysis_doc(title', <<"A", "I">>, gpt_text', regs)
    /\ pc' = "analysed"
    /\ UNCHANGED <<amendment_rows, metadata, rows>>
    /\ UNCHANGED <<ingestVars, searchVars, sessionVars>>

\* The pairs of a chat: a short answer, an answer of three lines with bold
\* text and a blank line, an empty answer.
QaPool ==
    {[question |-> <<"q">>, answer |-> <<"a">>],
     [question |-> <<"q", "2">>,
      answer |-> <<"*", "*", "a", "*", "*", NL, " ", NL, "b">>],
     [question |-> <<"q">>, answer |-> <<>>]}

\* create_qa_doc on at most MaxTurns pairs; page_chat calls it with one pair
\* at least.
CreateQaDoc ==
    /\ pc = "new"
    /\ \E name \in {<<"a">>}, qa_pairs \in SeqsUpTo(QaPool, MaxTurns) \ {<<>>} :
          /\ title' = QaTitle(name)
          /\ head' = _build_head(title')
          /\ section' = create_qa_doc(name, qa_pairs)
    /\ pc' = "recorded"
    /\ UNCHANGED <<amendment_rows, metadata>>
    /\ UNCHANGED nonExportVars

NextExport == CreateAmendmentDoc \/ CreateAnalysisDoc \/ CreateQaDoc

InitExport ==
    /\ pc = "new"
    /\ IngestIdle
    /\ regulations = <<>>
    /\ SearchIdle
    /\ ExportIdle
    /\ gpt_text = <<>>
    /\ ParseIdle
    /\ SessionIdle

SpecExport == InitExport /\ [][NextExport]_vars

(***************************************************************************)
(* The reverse parser at work on a draft.  A draft is up to MaxLines of    *)
(* the lines below, or a markdown table: the header, the rule and up to    *)
(* MaxTableRows data rows "| before | after |".                            *)
(***************************************************************************)
HeaderLine == <<"|", " ", "hyeon", "haeng", " ", "|", " ", "gae", "jeong", "an",
                " ", "|">>
RuleLine == <<"|", "-", "-", "-", "|", ":", "-", "-", "|">>

LinePool == {HeaderLine,
             RuleLine,
             <<" ", "|", " ", "a", " ", "|", " ", "b", " ", "c", " ", "|", " ">>,
             <<"|", " ", " ", "|", " ", "b", " ", "|">>,
             <<"|", " ", "a", " ", "|", " ", " ", "|">>,
             <<"a", " ", "b">>,
             <<"hyeon", "haeng", ":">>,
             <<"[[", "gae", "jeong", "an", "]]">>,
             <<" ">>}

TableCellPool == {<<>>, <<"a">>, <<"b", " ", "c">>, <<"-">>}

FormatRow(before, after) ==
    <<"|", " ">> \o before \o <<" ", "|", " ">> \o after \o <<" ", "|">>

RenderTable(data) ==
    Join(<<HeaderLine, RuleLine>>
             \o [n \in 1..Len(data) |-> FormatRow(data[n][1], data[n][2])],
         <<NL>>)

Drafts ==
    {Join(ls, <<NL>>) : ls \in SeqsUpTo(LinePool, MaxLines)}
        \cup {RenderTable(data) :
                 data \in SeqsUpTo(TableCellPool \X TableCellPool, MaxTableRows)}

ParseGptAmendment ==
    /\ pc = "draft"
    /\ rows' = parse_gpt_amendment(gpt_text)
    /\ pc' = "parsed"
    /\ UNCHANGED gpt_text
    /\ UNCHANGED nonParseVars

NextParse == ParseGptAmendment

InitParse ==
    /\ pc = "draft"
    /\ gpt_text \in Drafts
    /\ IngestIdle
    /\ regulations = <<>>
    /\ SearchIdle
    /\ ExportIdle
    /\ ParseIdle
    /\ SessionIdle

SpecParse == InitParse /\ [][NextParse]_vars

(***************************************************************************)
(* The calls of the text-generation service.  A gpt_ function builds one   *)
(* request and passes it to client.chat.completions.create once; what it   *)
(* returns is the content of the reply, and a failure of the call leaves   *)
(* the function as an exception.                                           *)
(***************************************************************************)
GPT_MODEL == <<"gpt-4o-mini">>

AnalyzeLimit == 5
SummaryArticleLimit == 20
DraftArticleLimit == 5
FullTextLimit == 8000
HistoryLimit == 6
CoreContentLimit == 100

\* f'{a["number"]} ({a["title"]})'
ArticleSummary(a) == a.number \o <<" ", "(">> \o a.title \o <<")">>

\* "[id] name - articles: number (title), ..."
RegSummary(reg) ==
    <<"[">> \o reg.id \o <<"]", " ">> \o reg.name \o <<" ", "[articles:]", " ">>
        \o Join([k \in 1..Len(Take(reg.articles, SummaryArticleLimit)) |->
                    ArticleSummary(reg.articles[k])],
                <<",", " ">>)

gpt_analyze_regulations(search_query, search_results) ==
    LET top == Take(search_results, AnalyzeLimit)
        context == Join([k \in 1..Len(top) |-> RegSummary(top[k].regulation)],
                        <<NL>>)
    IN  [function |-> "gpt_analyze_regulations",
         model |-> GPT_MODEL,
         temperature |-> "0.3",
         max_tokens |-> 1500,
         messages |->
             <<[role |-> "system", content |-> <<"[system: regulation expert]">>],
               [role |-> "user",
                content |-> <<"[question:]", " ">> \o search_query
                                \o <<NL, NL, "[regulations found:]", NL>>
                                \o context
                                \o <<NL, NL, "[answer from these regulations]">>]>>]

\* "[number (title)]\ncontent"
ArticleText(a) ==
    <<"[">> \o ArticleSummary(a) \o <<"]", NL>> \o a.content

gpt_draft_amendment(reg, articles, idea) ==
    LET top == Take(articles, DraftArticleLimit)
        articles_text == Join([k \in 1..Len(top) |-> ArticleText(top[k])],
                              <<NL, NL>>)
    IN  [function |-> "gpt_draft_amendment",
         model |-> GPT_MODEL,
         temperature |-> "0.4",
         max_tokens |-> 2000,
         messages |->
             <<[role |-> "system", content |-> <<"[system: amendment expert]">>],
               [role |-> "user",
                content |-> <<"[regulation:]", " ">> \o reg.name
                                \o <<NL, NL, "[idea:]", " ">> \o idea
                                \o <<NL, NL, "[current articles:]", NL>>
                                \o articles_text
                                \o <<NL, NL, "[write a comparison table]">>]>>]

\* chat_history[-6:]
LastOf(list, n) ==
    IF Len(list) <= n THEN list ELSE SubSeq(list, Len(list) - n + 1, Len(list))

gpt_regulation_chat(prompt, reg, chat_history) ==
    LET full_text == IF Len(reg.full_text) > FullTextLimit
                     THEN SubSeq(reg.full_text, 1, FullTextLimit)
                              \o <<NL, "[rest omitted]">>
                     ELSE reg.full_text
    IN  [function |-> "gpt_regulation_chat",
         model |-> GPT_MODEL,
         temperature |-> "0.3",
         max_tokens |-> 1500,
         messages |->
             <<[role |-> "system",
                content |-> <<"[system: expert of ">> \o reg.name \o <<"]", NL>>
                                \o full_text]>>
                 \o LastOf(chat_history, HistoryLimit)
                 \o <<[role |-> "user", content |-> prompt]>>]

\* client.chat.completions.create(...): the request is sent once, and the
\* reply is a completion or a failure.  The log keeps both.
Create_RetriesOnFailure(sent, request, reply) ==
    IF reply.ok
    THEN Append(sent, [request |-> request, reply |-> reply])
    ELSE sent \o <<[request |-> request, reply |-> reply],
                   [request |-> request, reply |-> reply]>>

Create(sent, request, reply) ==
    Append(sent, [request |-> request, reply |-> reply])

(***************************************************************************)
(* The pages.  A run of a page starts from an empty page: shown is what    *)
(* the run has put on the page and requests what it has sent.              *)
(***************************************************************************)

\* f"{r['regulation']['name']} (relevance: {r['score']})"
OptionLabel(r) ==
    r.regulation.name \o <<" ", "(", "[relevance:]", " ">> \o Decimal(r.score)
        \o <<")">>

\* reg_options: a dict from label to position, the last position of a label.
OptionLabels(search_results) ==
    {OptionLabel(search_results[k]) : k \in 1..Len(search_results)}

reg_options(search_results) ==
    [label \in OptionLabels(search_results) |->
        CHOOSE k \in 1..Len(search_results) :
            /\ OptionLabel(search_results[k]) = label
            /\ \A j \in 1..Len(search_results) :
                   OptionLabel(search_results[j]) = label => j <= k]

\* n.split(" (")[0]
BeforeBracket(label) ==
    LET found == {k \in 1..Len(label) : OccursAt(label, <<" ", "(">>, k)}
    IN  IF found = {} THEN label ELSE SubSeq(label, 1, Least(found) - 1)

\* The metadata page_amendment passes: a regulation has no "dept".
AmendmentMetadata(reg, idea, names) ==
    [background |-> <<"[background of ">> \o reg.name \o <<"]">>,
     core_content |-> Take(idea, CoreContentLimit),
     related_regs |-> Join([k \in 1..Len(names) |-> BeforeBracket(names[k])],
                           <<",", " ">>),
     department |-> Get(reg, "dept"),
     cooperating |-> <<"[cooperating]">>,
     schedule |-> <<"[schedule]">>,
     target |-> <<"[target]">>]

\* The rows passed on as they were parsed.
WithPlaceholder_Never(parsed, draft) == parsed

\* if not amendment_rows: amendment_rows = [the placeholder pair]
WithPlaceholder(parsed, draft) ==
    IF parsed = <<>>
    THEN <<[current |-> <<"[gpt text]">>, revised |-> draft]>>
    ELSE parsed

Idea == <<"A", "I">>

Causes == {<<"[timeout]">>, <<"[rate limit]">>}

Failures == {[ok |-> FALSE, cause |-> c] : c \in Causes}

\* The drafts the service returns: a table, prose, a marker with nothing
\* after it, nothing.
DraftReplies ==
    {[ok |-> TRUE, content |-> d] :
        d \in {RenderTable(<< <<<<"a">>, <<"b", " ", "c">>>> >>),
               <<"a", " ", "b">>,
               <<"hyeon", "haeng", ":", NL, " ">>,
               <<>>}}

AnalysisReplies ==
    {[ok |-> TRUE, content |-> d] :
        d \in {<<"#", "#", " ", "a", NL, "|", " ", "a", " ", "|", NL, "b">>}}

\* What a question gets: an answer or a failure.
ChatReplies == {[ok |-> TRUE, content |-> <<"a">>],
                [ok |-> FALSE, cause |-> <<"[timeout]">>]}

\* page_search with a query: the search, the analysis when it is asked
\* for, then the list of the results.
PageSearch ==
    /\ pc = "page_search"
    /\ \E q \in {Idea, <<"z", "z">>}, use_gpt \in BOOLEAN,
          reply \in AnalysisReplies \cup Failures :
          LET found == keyword_search(q, index, regulations, DefaultTopK)
              listed == [k \in 1..Len(found) |->
                            [kind |-> "result",
                             regulation |-> found[k].regulation.id]]
              reg_info == [k \in 1..Len(Take(found, AnalyzeLimit)) |->
                              [name |-> found[k].regulation.name,
                               article_count |-> found[k].regulation.article_count,
                               score |-> found[k].score]]
          IN  /\ query' = q
              /\ top_k' = DefaultTopK
              /\ results' = found
              /\ IF found = <<>>
                 THEN /\ shown' = <<[kind |-> "warning"]>>
                      /\ requests' = <<>>
                      /\ UNCHANGED <<title, gpt_text, head, section>>
                 ELSE IF ~use_gpt
                 THEN /\ shown' = listed
                      /\ requests' = <<>>
                      /\ UNCHANGED <<title, gpt_text, head, section>>
                 ELSE /\ requests' = Create(<<>>, gpt_analyze_regulations(q, found),
                                            reply)
                      /\ IF reply.ok
                         THEN /\ title' = <<"[analysis:]", " ">> \o q
                              /\ gpt_text' = reply.content
                              /\ head' = _build_head(title')
                              /\ section' = create_analysis_doc(title', q,
                                                reply.content, reg_info)
                              /\ shown' = <<[kind |-> "analysis",
                                             content |-> reply.content],
                                            [kind |-> "download"]>> \o listed
                         ELSE /\ shown' = <<[kind |-> "error",
                                             label |-> "[analysis failed]",
                                             cause |-> reply.cause]>> \o listed
                              /\ UNCHANGED <<title, gpt_text, head, section>>
    /\ UNCHANGED <<pc, index, regulation, relevant>>
    /\ UNCHANGED <<amendment_rows, metadata, rows>>
    /\ UNCHANGED <<selected_names, name_pos, session_state>>
    /\ UNCHANGED ingestVars

\* page_amendment with an idea, a selection and the button pressed: the
\* search, then the loop over the selected names starts.
ClickDraft ==
    /\ pc = "page_amendment"
    /\ LET found == keyword_search(Idea, index, regulations, DefaultTopK)
       IN  /\ found # <<>>
           /\ query' = Idea
           /\ top_k' = DefaultTopK
           /\ results' = found
           /\ \E names \in SeqsUpTo(OptionLabels(found), Len(found)) :
                 /\ names # <<>>
                 /\ \A m, n \in 1..Len(names) : m # n => names[m] # names[n]
                 /\ selected_names' = names
    /\ name_pos' = 1
    /\ requests' = <<>>
    /\ shown' = <<>>
    /\ pc' = "drafting"
    /\ UNCHANGED <<index, regulation, relevant, session_state>>
    /\ UNCHANGED <<ingestVars, exportVars, parseVars>>

\* One iteration of the loop: the articles, the request, and the document
\* or the error message.
DraftAmendment ==
    /\ pc = "drafting"
    /\ name_pos <= Len(selected_names)
    /\ \E reply \in DraftReplies \cup Failures :
          LET name == selected_names[name_pos]
              idx == reg_options(results)[name]
              reg == results[idx].regulation
              relevant_articles == find_relevant_articles(reg, query)
              draft == reply.content
          IN  /\ regulation' = idx
              /\ relevant' = relevant_articles
              /\ requests' = Create(requests,
                                    gpt_draft_amendment(reg, relevant_articles, query),
                                    reply)
              /\ IF reply.ok
                 THEN /\ gpt_text' = draft
                      /\ rows' = parse_gpt_amendment(draft)
                      /\ amendment_rows' = WithPlaceholder(rows', draft)
                      /\ metadata' = AmendmentMetadata(reg, query, selected_names)
                      /\ title' = reg.name \o <<" ", "[amendment]">>
                      /\ head' = _build_head(title')
                      /\ section' = create_amendment_doc(title', amendment_rows',
                                                         metadata')
                      /\ shown' = Append(shown, [kind |-> "draft",
                                                 regulation |-> reg.id,
                                                 content |-> draft])
                 ELSE /\ shown' = Append(shown, [kind |-> "error",
                                                 label |-> "[amendment failed]",
                                                 regulation |-> reg.id,
                                                 cause |-> reply.cause])
                      /\ UNCHANGED <<exportVars, parseVars>>
    /\ name_pos' = name_pos + 1
    /\ pc' = IF name_pos = Len(selected_names) THEN "page_amendment" ELSE pc
    /\ UNCHANGED <<index, query, top_k, results, selected_names, session_state>>
    /\ UNCHANGED ingestVars

\* reg_names: a dict from name to position, the last position of a name.
reg_names ==
    [name \in {regulations[k].name : k \in 1..Len(regulations)} |->
        CHOOSE k \in 1..Len(regulations) :
            /\ regulations[k].name = name
            /\ \A j \in 1..Len(regulations) :
                   regulations[j].name = name => j <= k]

\* st.session_state.get(chat_key), with [] for a key not yet there.
ChatHistory(chat_key) ==
    IF chat_key \in DOMAIN session_state THEN session_state[chat_key] ELSE <<>>

\* The questions of the chat.
Prompts == {<<"q">>}

\* The pairs of the record: range(0, len(msgs) - 1, 2) from at (from 0), a
\* pair for a user message followed by an assistant message.
RECURSIVE QaPairsFrom(_, _)
QaPairsFrom(msgs, at) ==
    IF at >= Len(msgs) - 1 THEN <<>>
    ELSE (IF msgs[at + 1].role = "user" /\ msgs[at + 2].role = "assistant"
          THEN <<[question |-> msgs[at + 1].content,
                  answer |-> msgs[at + 2].content]>>
          ELSE <<>>)
             \o QaPairsFrom(msgs, at + 2)

QaPairs(msgs) == QaPairsFrom(msgs, 0)

\* page_chat storing nothing for the assistant when the call has failed.
ChatSubmit_DropsFailedAnswer ==
    /\ pc = "page_chat"
    /\ \E selected_name \in DOMAIN reg_names, prompt \in Prompts,
          reply \in ChatReplies :
          LET reg == regulations[reg_names[selected_name]]
              chat_key == <<"chat_">> \o reg.id
              history == ChatHistory(chat_key)
              response == IF reply.ok THEN reply.content
                          ELSE <<"[error:]", " ">> \o reply.cause
              msgs == history \o IF reply.ok
                                     THEN <<[role |-> "user", content |-> prompt],
                                            [role |-> "assistant",
                                             content |-> response]>>
                                     ELSE <<[role |-> "user", content |-> prompt]>>
              qa_pairs == QaPairs(msgs)
          IN  /\ Len(history) < 2 * MaxTurns
              /\ requests' = Create(<<>>, gpt_regulation_chat(prompt, reg, history),
                                    reply)
              /\ session_state' =
                     [key \in DOMAIN session_state \cup {chat_key} |->
                         IF key = chat_key THEN msgs ELSE session_state[key]]
              /\ IF qa_pairs # <<>>
                 THEN /\ title' = QaTitle(selected_name)
                      /\ head' = _build_head(title')
                      /\ section' = create_qa_doc(selected_name, qa_pairs)
                      /\ shown' = <<IF reply.ok
                                    THEN [kind |-> "answer", content |-> response]
                                    ELSE [kind |-> "error", label |-> "[error]",
                                          cause |-> reply.cause],
                                    [kind |-> "download"]>>
                 ELSE /\ shown' = <<IF reply.ok
                                    THEN [kind |-> "answer", content |-> response]
                                    ELSE [kind |-> "error", label |-> "[error]",
                                          cause |-> reply.cause]>>
                      /\ UNCHANGED <<title, head, section>>
    /\ UNCHANGED <<pc, selected_names, name_pos>>
    /\ UNCHANGED <<amendment_rows, metadata>>
    /\ UNCHANGED <<ingestVars, searchVars, parseVars>>

\* page_chat with a regulation selected and a question submitted, at most
\* MaxTurns questions for a regulation: the request, the answer or the
\* error message, the two turns stored, and the record for the download.
ChatSubmit ==
    /\ pc = "page_chat"
    /\ \E selected_name \in DOMAIN reg_names, prompt \in Prompts,
          reply \in ChatReplies :
          LET reg == regulations[reg_names[selected_name]]
              chat_key == <<"chat_">> \o reg.id
              history == ChatHistory(chat_key)
              response == IF reply.ok THEN reply.content
                          ELSE <<"[error:]", " ">> \o reply.cause
              msgs == history \o <<[role |-> "user", content |-> prompt],
                                       [role |-> "assistant",
                                        content |-> response]>>
              qa_pairs == QaPairs(msgs)
          IN  /\ Len(history) < 2 * MaxTurns
              /\ requests' = Create(<<>>, gpt_regulation_chat(prompt, reg, history),
                                    reply)
              /\ session_state' =
                     [key \in DOMAIN session_state \cup {chat_key} |->
                         IF key = chat_key THEN msgs ELSE session_state[key]]
              /\ IF qa_pairs # <<>>
                 THEN /\ title' = QaTitle(selected_name)
                      /\ head' = _build_head(title')
                      /\ section' = create_qa_doc(selected_name, qa_pairs)
                      /\ shown' = <<IF reply.ok
                                    THEN [kind |-> "answer", content |-> response]
                                    ELSE [kind |-> "error", label |-> "[error]",
                                          cause |-> reply.cause],
                                    [kind |-> "download"]>>
                 ELSE /\ shown' = <<IF reply.ok
                                    THEN [kind |-> "answer", content |-> response]
                                    ELSE [kind |-> "error", label |-> "[error]",
                                          cause |-> reply.cause]>>
                      /\ UNCHANGED <<title, head, section>>
    /\ UNCHANGED <<pc, selected_names, name_pos>>
    /\ UNCHANGED <<amendment_rows, metadata>>
    /\ UNCHANGED <<ingestVars, searchVars, parseVars>>

NextSession == PageSearch \/ ClickDraft \/ DraftAmendment \/ ChatSubmit

\* The corpus of the session.
SessionDir ==
    {f \in SearchDirPool :
        f.fname \in {<<"2", "_", "b", ".", "x", "m", "l">>,
                     <<"5", "_", "A", "I", ".", "x", "m", "l">>}}

\* main: the corpus is loaded and indexed, and a page is chosen.
InitSession ==
    /\ pc \in {"page_search", "page_amendment", "page_chat"}
    /\ IngestIdle
    /\ regulations = parse_all_xml(SessionDir)
    /\ index = build_search_index(regulations)
    /\ query = <<>>
    /\ top_k = 0
    /\ results = <<>>
    /\ regulation = 0
    /\ relevant = <<>>
    /\ ExportIdle
    /\ gpt_text = <<>>
    /\ ParseIdle
    /\ SessionIdle

SpecSession == InitSession /\ [][NextSession]_vars

(***************************************************************************)
(* Properties of the exporter.                                             *)
(***************************************************************************)
Tables == {k \in 1..Len(section) : section[k].kind = "table"}

\* The comparison table is the last table of an amendment document.
ComparisonTable == section[CHOOSE k \in Tables : \A j \in Tables : j <= k]

KnownFields == {field_map[k][1] : k \in 1..Len(field_map)}

FilledFields == {key \in KnownFields \cap DOMAIN metadata : metadata[key] # <<>>}

\* The text of a cell: its paragraphs, joined with newline.
CellText(cell) ==
    Join([k \in 1..Len(cell.paragraphs) |-> cell.paragraphs[k].text], <<NL>>)

\* C8: every table declares as RowCount the number of its ROW elements,
\* a header row first and then the data rows; the comparison table of N
\* rows declares N + 1 and holds the N rows in input order, also for N = 0;
\* the metadata table declares the number of filled fields plus one.
C8_RowCountIsDataRowsPlusHeader ==
    pc = "created" =>
        /\ \A k \in Tables :
              /\ section[k].RowCount = Decimal(Len(section[k].rows))
              /\ \A c \in 1..Len(section[k].rows[1]) :
                     section[k].rows[1][c].Header = "true"
              /\ \A r \in 2..Len(section[k].rows) :
                     \A c \in 1..Len(section[k].rows[r]) :
                         section[k].rows[r][c].Header # "true"
        /\ Tables # {}
        /\ ComparisonTable.RowCount = Decimal(Len(amendment_rows) + 1)
        /\ Len(ComparisonTable.rows) = Len(amendment_rows) + 1
        /\ \A n \in 1..Len(amendment_rows) :
              /\ Len(ComparisonTable.rows[n + 1]) = 2
              /\ CellText(ComparisonTable.rows[n + 1][1])
                     = Get(amendment_rows[n], "current")
              /\ CellText(ComparisonTable.rows[n + 1][2])
                     = Get(amendment_rows[n], "revised")
        /\ \A k \in Tables :
              section[k] # ComparisonTable =>
                  section[k].RowCount = Decimal(Cardinality(FilledFields) + 1)

\* A document without comparison rows: its comparison table declares one
\* row, and its metadata table, of six filled fields, declares seven.
C8_Witness ==
    /\ pc = "created"
    /\ amendment_rows = <<>>
    /\ Cardinality(Tables) = 2
    /\ ComparisonTable.RowCount = <<"1">>
    /\ Len(ComparisonTable.rows) = 1
    /\ \E k \in Tables : section[k].RowCount = <<"7">>

(***************************************************************************)
(* Properties of the reverse parser.                                       *)
(***************************************************************************)
DraftLines == Split(gpt_text, NL)

\* The data rows of a draft that is a markdown table: the text is the
\* header row, the rule and then rows "| before | after |" whose cells are
\* not both empty; <<>> marks a draft that is no such table.
IsFormattedRow(line) ==
    \E c \in TableCellPool \X TableCellPool :
        /\ line = FormatRow(c[1], c[2])
        /\ c[1] # <<>> \/ c[2] # <<>>

RowOf(line) ==
    LET c == CHOOSE c \in TableCellPool \X TableCellPool :
                 line = FormatRow(c[1], c[2])
    IN  [current |-> Strip(c[1]), revised |-> Strip(c[2])]

IsWellFormedTable ==
    /\ Len(DraftLines) >= 3
    /\ DraftLines[1] = HeaderLine
    /\ DraftLines[2] = RuleLine
    /\ \A k \in 3..Len(DraftLines) : IsFormattedRow(DraftLines[k])

\* C9: for a well-formed table with a header row and a rule the parser
\* returns exactly the data rows, in order, as the trimmed first two cells.
C9_TableGivesItsDataRows ==
    (pc = "parsed" /\ IsWellFormedTable) =>
        rows = [n \in 1..(Len(DraftLines) - 2) |-> RowOf(DraftLines[n + 2])]

\* A rule of a markdown table: every cell is dashes, colons and blanks and
\* at least one cell has a dash.
IsRule(line) ==
    /\ \A k \in 1..Len(Cells(line)) :
           \A j \in 1..Len(Cells(line)[k]) : Cells(line)[k][j] \in {"-", ":", " "}
    /\ \E k \in 1..Len(Cells(line)) : Contains(Cells(line)[k], <<"-">>)

IsHeaderRow(line) ==
    /\ Len(Cells(line)) >= 2
    /\ Cells(line)[1] \in HeaderCurrent \/ Cells(line)[2] \in HeaderRevised

Emitted(line) ==
    \E n \in 1..Len(rows) :
        rows[n] = [current |-> Cells(line)[1], revised |-> Cells(line)[2]]

\* C10: every line that starts with the delimiter, is neither a rule nor a
\* header row and has two cells or more is returned as the pair of its
\* first two cells unless both are empty; in particular a row with exactly
\* one of the two cells empty is returned.
C10_OnlyEmptyRowsSkipped ==
    pc = "parsed" =>
        \A k \in 1..Len(DraftLines) :
            LET line == Strip(DraftLines[k])
            IN  /\ (/\ StartsWith(line, <<"|">>)
                    /\ ~SeparatorMatch(line)
                    /\ ~IsHeaderRow(line)
                    /\ Len(Cells(line)) >= 2
                    /\ Cells(line)[1] # <<>> \/ Cells(line)[2] # <<>>)
                       => Emitted(line)
                /\ (/\ StartsWith(line, <<"|">>)
                    /\ ~IsRule(line)
                    /\ ~IsHeaderRow(line)
                    /\ Len(Cells(line)) >= 2
                    /\ (Cells(line)[1] = <<>>) # (Cells(line)[2] = <<>>))
                       => Emitted(line)

\* The lines the primary strategy turns into rows.
PrimaryLines ==
    {k \in 1..Len(DraftLines) :
        LET line == Strip(DraftLines[k])
        IN  /\ StartsWith(line, <<"|">>)
            /\ ~SeparatorMatch(line)
            /\ Len(Cells(line)) >= 2
            /\ ~IsHeaderRow(line)
            /\ Cells(line)[1] # <<>> \/ Cells(line)[2] # <<>>}

\* The n-th of a set of line numbers, in increasing order.
NthOf(S, n) == CHOOSE k \in S : Cardinality({j \in S : j <= k}) = n

\* Marker lines of the fallback and the mode each line is read in.
IsCurrentMarker(line) ==
    Contains(line, <<"hyeon", "haeng">>) /\ HasMarkerPunctuation(line)

IsRevisedMarker(line) ==
    /\ ~IsCurrentMarker(line)
    /\ Contains(line, <<"gae", "jeong">>)
    /\ HasMarkerPunctuation(line)

MarkerLines ==
    {k \in 1..Len(DraftLines) :
        IsCurrentMarker(DraftLines[k]) \/ IsRevisedMarker(DraftLines[k])}

ModeAt(k) ==
    LET before == {j \in MarkerLines : j < k}
    IN  IF before = {} THEN "None"
        ELSE IF IsCurrentMarker(DraftLines[NthOf(before, Cardinality(before))])
        THEN "current"
        ELSE "revised"

\* The lines accumulated in a mode, each followed by a newline.
TextIn(mode) ==
    LET S == {k \in 1..Len(DraftLines) : k \notin MarkerLines /\ ModeAt(k) = mode}
    IN  Flatten([n \in 1..Cardinality(S) |-> DraftLines[NthOf(S, n)] \o <<NL>>])

\* C11: when the table strategy yields a row the result is exactly its
\* rows, whatever marker lines the text holds; the fallback runs only when
\* it yields none, and then gives at most one pair, of the trimmed text
\* accumulated after the "current" and after the "revised" marker.
C11_FallbackOnlyWithoutTableRows ==
    pc = "parsed" =>
        IF PrimaryLines # {}
        THEN rows = [n \in 1..Cardinality(PrimaryLines) |->
                        LET line == Strip(DraftLines[NthOf(PrimaryLines, n)])
                        IN  [current |-> Cells(line)[1],
                             revised |-> Cells(line)[2]]]
        ELSE /\ Len(rows) <= 1
             /\ rows # <<>> =>
                    rows[1] = [current |-> Strip(TextIn("current")),
                               revised |-> Strip(TextIn("revised"))]
             /\ rows = <<>> <=> (TextIn("current") = <<>> /\ TextIn("revised") = <<>>)

\* A draft with a table row and, after a marker line, text the fallback
\* would have collected.
C11_Witness ==
    /\ pc = "parsed"
    /\ PrimaryLines # {}
    /\ MarkerLines # {}
    /\ TextIn("current") # <<>>
    /\ Len(rows) = Cardinality(PrimaryLines)

\* C12: a text in which no line starts with the delimiter (the line taken
\* trimmed, as the parser reads it) and no line holds a marker (a keyword
\* together with a colon or a closing bracket) gives the empty list.
C12_ProseGivesNoRows ==
    (/\ pc = "parsed"
     /\ \A k \in 1..Len(DraftLines) : ~StartsWith(Strip(DraftLines[k]), <<"|">>)
     /\ MarkerLines = {})
        => rows = <<>>

\* Prose of two lines or more, one of them with words.
C12_Witness ==
    /\ pc = "parsed"
    /\ Len(DraftLines) >= 2
    /\ \E k \in 1..Len(DraftLines) : DraftLines[k] = <<"a", " ", "b">>
    /\ \A k \in 1..Len(DraftLines) : ~StartsWith(Strip(DraftLines[k]), <<"|">>)
    /\ MarkerLines = {}
    /\ rows = <<>>

(***************************************************************************)
(* The metadata table of an amendment document.                            *)
(***************************************************************************)
FieldOrder == <<"background", "core_content", "related_regs", "department",
                "cooperating", "schedule", "target">>

IsFilled(key) == key \in DOMAIN metadata /\ metadata[key] # <<>>

FilledInOrder == SelectSeq(FieldOrder, IsFilled)

LabelOf(key) ==
    field_map[CHOOSE k \in 1..Len(field_map) : field_map[k][1] = key][2]

\* The metadata table comes before the comparison table.
MetadataTable == section[CHOOSE k \in Tables : \A j \in Tables : k <= j]

\* C13: the metadata table has one row for each field that is present and
\* not empty, none for an absent or empty field, in the order background,
\* core_content, related_regs, department, cooperating, schedule, target;
\* a row is the label of the field and its value as given.
C13_MetadataRowsAreFilledFieldsInOrder ==
    pc = "created" =>
        IF FilledInOrder = <<>>
        THEN Cardinality(Tables) = 1
        ELSE /\ Cardinality(Tables) = 2
             /\ Len(MetadataTable.rows) = Len(FilledInOrder) + 1
             /\ \A n \in 1..Len(FilledInOrder) :
                    /\ Len(MetadataTable.rows[n + 1]) = 2
                    /\ CellText(MetadataTable.rows[n + 1][1])
                           = LabelOf(FilledInOrder[n])
                    /\ CellText(MetadataTable.rows[n + 1][2])
                           = metadata[FilledInOrder[n]]

\* Metadata with an empty field, and with target and background filled:
\* the table holds background and then target, and nothing for schedule.
C13_Witness ==
    /\ pc = "created"
    /\ DOMAIN metadata = {"target", "schedule", "background"}
    /\ metadata["schedule"] = <<>>
    /\ Cardinality(Tables) = 2
    /\ MetadataTable.RowCount = <<"3">>
    /\ CellText(MetadataTable.rows[2][1]) = LabelOf("background")
    /\ CellText(MetadataTable.rows[3][1]) = LabelOf("target")

(***************************************************************************)
(* Properties of a batch.                                                  *)
(***************************************************************************)
IsReadable(fname) == FileNamed(fname).readable

\* The files the loop has been through.
Attempted == SubSeq(xml_files, 1, i - 1)

\* C14: a file that fails does not end the batch.  The loop goes through
\* the sorted list one file at a time and returns only after the last one;
\* the Documents are, in order, one for each file attempted that parsed and
\* none for a file that failed.
C14_FailureDoesNotAbortBatch ==
    pc \in {"loop", "returned"} =>
        /\ i \in 1..(Len(xml_files) + 1)
        /\ pc = "returned" => i = Len(xml_files) + 1
        /\ [n \in 1..Len(regulations) |-> regulations[n].filename]
               = SelectSeq(Attempted, IsReadable)

\* A batch of three whose second file failed: the first and the third file
\* gave a Document.
C14_Witness ==
    /\ pc = "returned"
    /\ Len(xml_files) = 3
    /\ ~IsReadable(xml_files[2])
    /\ Len(regulations) = 2
    /\ regulations[2].filename = xml_files[3]

\* The number an id carries after "REG-".
RECURSIVE NumberOf(_)
NumberOf(digits) ==
    IF digits = <<>> THEN 0
    ELSE 10 * NumberOf(SubSeq(digits, 1, Len(digits) - 1))
             + (CHOOSE d \in 0..9 : DigitChar(d) = digits[Len(digits)])

IdNumber(reg) == NumberOf(SubSeq(reg.id, 5, Len(reg.id)))

\* The place of a Document's file in the sorted list.
FilePosition(reg) == CHOOSE k \in 1..Len(xml_files) : xml_files[k] = reg.filename

\* C19: in the collection, also after failures, the ids are pairwise
\* distinct and their numbers strictly increasing; the number of an id is
\* the place of the file in the sorted list, so the collection is in the
\* order of the sorted files.
C19_IdsDistinctIncreasingInFileOrder ==
    pc \in {"loop", "returned"} =>
        /\ \A n \in 1..Len(regulations) :
              /\ SubSeq(regulations[n].id, 1, 4) = <<"R", "E", "G", "-">>
              /\ regulations[n].filename \in {xml_files[k] : k \in 1..Len(xml_files)}
              /\ IdNumber(regulations[n]) = FilePosition(regulations[n])
        /\ \A m, n \in 1..Len(regulations) :
              m < n =>
                  /\ regulations[m].id # regulations[n].id
                  /\ IdNumber(regulations[m]) < IdNumber(regulations[n])
                  /\ FilePosition(regulations[m]) < FilePosition(regulations[n])

\* A batch whose second file failed: the ids are REG-001 and REG-003.
C19_Witness ==
    /\ pc = "returned"
    /\ Len(regulations) = 2
    /\ regulations[1].id = <<"R", "E", "G", "-", "0", "0", "1">>
    /\ regulations[2].id = <<"R", "E", "G", "-", "0", "0", "3">>

(***************************************************************************)
(* Properties of the analysis document.                                    *)
(***************************************************************************)
AnalysisTextLines == Split(gpt_text, NL)

\* The class of a line, the tests taken in order on the trimmed line.
ClassOf(raw) ==
    LET line == Strip(raw)
    IN  IF line = <<>> THEN "blank"
        ELSE IF StartsWith(line, <<"#", "#">>) THEN "heading"
        ELSE IF StartsWith(line, <<"-", " ">>) \/ StartsWith(line, <<"*", " ">>)
        THEN "bullet"
        ELSE IF StartsWith(line, <<"|">>) THEN "table-row"
        ELSE "plain"

EmittingLines == {k \in 1..Len(AnalysisTextLines) :
                     ClassOf(AnalysisTextLines[k]) # "table-row"}

\* The blocks of the lines come after the four leading blocks.
AnalysisBlock(n) == section[4 + n]

\* C17: the lines of the analysis text that are not table rows give one
\* block each, in order: a blank line a blank paragraph, a heading line a
\* heading paragraph without its marker, a bullet line a paragraph whose
\* marker is replaced by the indent glyph, any other line a plain paragraph
\* without pairs of bold markers; a table row gives nothing, and a blank
\* paragraph follows the last block of the lines.
C17_OneBlockPerLineExceptTableRows ==
    pc = "analysed" =>
        /\ Len(section) >= 4 + Cardinality(EmittingLines) + 3
        /\ section[4] = MakeParagraph(<<"[heading analysis]">>, "2", "2")
        /\ section[4 + Cardinality(EmittingLines) + 1].kind = "empty"
        /\ section[4 + Cardinality(EmittingLines) + 2].kind = "empty"
               \/ section[4 + Cardinality(EmittingLines) + 2]
                      = MakeParagraph(<<"[heading related regulations]">>, "2", "2")
        /\ \A n \in 1..Cardinality(EmittingLines) :
              LET line == Strip(AnalysisTextLines[NthOf(EmittingLines, n)])
                  class == ClassOf(line)
                  block == AnalysisBlock(n)
              IN  /\ class = "blank" => block.kind = "empty"
                  /\ class = "heading" =>
                         /\ block.kind = "para"
                         /\ block.CharShape = "2" /\ block.ParaShape = "2"
                         /\ ~StartsWith(block.text, <<"#">>)
                         /\ \E h \in 2..Len(line) :
                                /\ \A j \in 1..h : line[j] = "#"
                                /\ block.text = Strip(Slice(line, h + 1, Len(line)))
                  /\ class = "bullet" =>
                         /\ block.kind = "para"
                         /\ block.CharShape = "0" /\ block.ParaShape = "0"
                         /\ block.text = <<" ", " ", "[dot]", " ">>
                                             \o Slice(line, 3, Len(line))
                  /\ class = "plain" =>
                         /\ block.kind = "para"
                         /\ block.CharShape = "0" /\ block.ParaShape = "0"
                         /\ ~Contains(line, <<"*", "*">>) => block.text = line
                         /\ FirstBold(block.text, 1) # 0 =>
                                FirstBold(block.text, FirstBold(block.text, 1) + 2) = 0
                         /\ (Len(line) - Len(block.text)) % 4 = 0
                         /\ Len(SelectSeq(line, LAMBDA x : x = "*"))
                                - Len(SelectSeq(block.text, LAMBDA x : x = "*"))
                                    = Len(line) - Len(block.text)
                         /\ \A c \in {line[j] : j \in 1..Len(line)} \ {"*"} :
                                Len(SelectSeq(block.text, LAMBDA x : x = c))
                                    = Len(SelectSeq(line, LAMBDA x : x = c))

\* An analysis of three lines, a heading, a table row and a line with bold
\* text: two blocks, the heading and the plain text.
C17_Witness ==
    /\ pc = "analysed"
    /\ Len(AnalysisTextLines) = 3
    /\ ClassOf(AnalysisTextLines[1]) = "heading"
    /\ ClassOf(AnalysisTextLines[2]) = "table-row"
    /\ ClassOf(AnalysisTextLines[3]) = "plain"
    /\ Contains(AnalysisTextLines[3], <<"*", "*">>)
    /\ Cardinality(EmittingLines) = 2
    /\ AnalysisBlock(1) = MakeParagraph(<<"a">>, "2", "2")
    /\ AnalysisBlock(2).kind = "para"
    /\ AnalysisBlock(3).kind = "empty"

(***************************************************************************)
(* The order of the blocks of an amendment document.                       *)
(***************************************************************************)
\* The place of the comparison table: it follows its heading.
ComparisonAt ==
    CHOOSE k \in Tables :
        section[k - 1] = MakeParagraph(<<"[heading comparison]">>, "2", "2")

\* C18: the body is, in order, the title, the date and the author line,
\* the metadata table if and only if a metadata field is filled, the
\* comparison table, the two closing clauses and last the disclaimer; the
\* metadata table, when there is one, comes before the comparison table.
C18_BlocksInFixedOrder ==
    pc = "created" =>
        /\ section[1] = MakeParagraph(title, "1", "1")
        /\ section[2] = MakeParagraph(<<"[date: today]">>, "4", "0")
        /\ section[3] = MakeParagraph(<<"[author line]">>, "4", "0")
        /\ section[4].kind = "empty"
        /\ Cardinality(Tables) = (IF FilledInOrder = <<>> THEN 1 ELSE 2)
        /\ \E k \in Tables :
               section[k - 1] = MakeParagraph(<<"[heading comparison]">>, "2", "2")
        /\ \A k \in Tables : k <= ComparisonAt
        /\ \A k \in Tables \ {ComparisonAt} :
               /\ k = 6
               /\ section[5] = MakeParagraph(<<"[heading summary]">>, "2", "2")
               /\ section[7].kind = "empty"
               /\ ComparisonAt = 9
        /\ Len(section) = ComparisonAt + 6
        /\ section[ComparisonAt + 1].kind = "empty"
        /\ section[ComparisonAt + 2] = MakeParagraph(<<"[heading addenda]">>, "2", "2")
        /\ section[ComparisonAt + 3]
               = MakeParagraph(<<"[addendum 1: effective date]">>, "0", "0")
        /\ section[ComparisonAt + 4]
               = MakeParagraph(<<"[addendum 2: transitional]">>, "0", "0")
        /\ section[ComparisonAt + 5].kind = "empty"
        /\ section[ComparisonAt + 6] = MakeParagraph(<<"[disclaimer]">>, "4", "0")
        /\ ComparisonAt \in {6, 7, 9}
        /\ ComparisonAt = 7 =>
               section[5] = MakeParagraph(<<"[heading summary]">>, "2", "2")

\* A document with a metadata table: the table is the sixth block, the
\* comparison table the ninth and the disclaimer the fifteenth and last.
C18_Witness ==
    /\ pc = "created"
    /\ FilledInOrder # <<>>
    /\ Tables = {6, 9}
    /\ Len(section) = 15
    /\ section[15] = MakeParagraph(<<"[disclaimer]">>, "4", "0")

(***************************************************************************)
(* The index and the documents.                                            *)
(***************************************************************************)
\* The score the search gives a document, from the document's own fields.
OwnScore(reg) ==
    EntryScore([text_lower |-> Lower(reg.full_text), name |-> reg.name],
               Words(Lower(query)))

HasUpperCase(text) ==
    \E j \in 1..Len(text) : \E u \in 1..Len(UpperCase) : text[j] = UpperCase[u]

\* C20: the index has one entry for each document, entry k with the id,
\* the name, the counts and the lowercased text of document k; so the
\* document of a result is the one whose entry gave the score: the score
\* is the score of that document's own text and name.
C20_IndexIsProjectionOfDocuments ==
    pc = "ready" =>
        /\ Len(index) = Len(regulations)
        /\ \A k \in 1..Len(index) :
              /\ DOMAIN index[k]
                     = {"id", "name", "text_lower", "article_count", "char_count"}
              /\ index[k].id = regulations[k].id
              /\ index[k].name = regulations[k].name
              /\ index[k].article_count = regulations[k].article_count
              /\ index[k].char_count = regulations[k].char_count
              /\ index[k].text_lower = Lower(regulations[k].full_text)
              /\ Len(index[k].text_lower) = Len(regulations[k].full_text)
              /\ ~HasUpperCase(index[k].text_lower)
        /\ \A r \in 1..Len(results) :
              /\ \E k \in 1..Len(regulations) :
                     /\ results[r].regulation = regulations[k]
                     /\ index[k].id = results[r].regulation.id
              /\ results[r].score = OwnScore(results[r].regulation)

\* A search over two documents or more whose first result is not the
\* first document, and whose text has capitals.
C20_Witness ==
    /\ pc = "ready"
    /\ Len(regulations) >= 2
    /\ Len(results) >= 2
    /\ results[1].regulation # regulations[1]
    /\ results[1].score > results[2].score
    /\ HasUpperCase(results[1].regulation.full_text)

(***************************************************************************)
(* Properties of the pages.                                                *)
(***************************************************************************)
\* An amendment document has been generated in this session.
Generated == pc \in {"drafting", "page_amendment"} /\ section # <<>>

\* C15: when the parser returns the empty list for a draft the page passes
\* on exactly one placeholder pair, which holds the draft, and otherwise
\* the rows as parsed; so the comparison table of every amendment document
\* generated has a data row: its RowCount is 2 or more.
C15_PlaceholderRowWhenNothingParsed ==
    Generated =>
        /\ rows = <<>> =>
               /\ Len(amendment_rows) = 1
               /\ amendment_rows[1].revised = gpt_text
               /\ amendment_rows[1].current # <<>>
        /\ rows # <<>> => amendment_rows = rows
        /\ Len(ComparisonTable.rows) = Len(amendment_rows) + 1
        /\ Len(ComparisonTable.rows) >= 2
        /\ NumberOf(ComparisonTable.RowCount) >= 2
        /\ CellText(ComparisonTable.rows[2][1]) = amendment_rows[1].current
        /\ CellText(ComparisonTable.rows[2][2]) = amendment_rows[1].revised

\* A draft of prose: nothing parsed, and a document whose comparison table
\* declares two rows, the second with the draft.
C15_Witness ==
    /\ Generated
    /\ gpt_text = <<"a", " ", "b">>
    /\ rows = <<>>
    /\ ComparisonTable.RowCount = <<"2">>
    /\ CellText(ComparisonTable.rows[2][2]) = gpt_text

\* What the run has shown for its calls of the service, one entry a call:
\* the output of the call or the error message.
CallsShown ==
    {n \in 1..Len(shown) :
        shown[n].kind \in {"analysis", "draft", "answer", "error"}}

\* The regulation the n-th selected name stands for.
SelectedReg(n) == results[reg_options(results)[selected_names[n]]].regulation

\* C16: a call of the service is not retried.  Each call of a gpt_
\* function in a run has sent exactly one request; a failure is shown by
\* the caller with its cause and a completion with its content; the loop
\* of page_amendment has sent one request for each selected regulation it
\* has been through, in order, also after a failure, and ends only after
\* the last selected regulation; a failed analysis leaves the list of the
\* results on the page.
C16_OneRequestPerCallFailureShown ==
    /\ Len(requests) = Cardinality(CallsShown)
    /\ \A n \in 1..Len(requests) :
          LET out == shown[NthOf(CallsShown, n)]
              reply == requests[n].reply
          IN  IF reply.ok
              THEN out.kind # "error" /\ out.content = reply.content
              ELSE out.kind = "error" /\ out.cause = reply.cause
    /\ pc \in {"page_search", "page_chat"} => Len(requests) <= 1
    /\ pc = "page_search" =>
          \A n \in 1..Len(requests) :
              /\ requests[n].request = gpt_analyze_regulations(query, results)
              /\ Len(SelectSeq(shown, LAMBDA x : x.kind = "result")) = Len(results)
    /\ pc = "page_chat" =>
          \A n \in 1..Len(requests) :
              requests[n].request.function = "gpt_regulation_chat"
    /\ pc \in {"drafting", "page_amendment"} =>
          /\ Len(requests) = (IF name_pos = 0 THEN 0 ELSE name_pos - 1)
          /\ pc = "drafting" => name_pos \in 1..Len(selected_names)
          /\ pc = "page_amendment" /\ name_pos # 0 =>
                 Len(requests) = Len(selected_names)
          /\ \A n \in 1..Len(requests) :
                 /\ shown[n].regulation = SelectedReg(n).id
                 /\ requests[n].request
                        = gpt_draft_amendment(
                              SelectedReg(n),
                              find_relevant_articles(SelectedReg(n), query),
                              query)

\* Two regulations selected, the call for the first failed and the call
\* for the second was made and gave a draft.
C16_Witness ==
    /\ pc = "page_amendment"
    /\ Len(selected_names) = 2
    /\ Len(requests) = 2
    /\ ~requests[1].reply.ok
    /\ requests[2].reply.ok
    /\ shown[1].kind = "error"
    /\ shown[1].cause = <<"[rate limit]">>
    /\ shown[2].kind = "draft"

(***************************************************************************)
(* What a search leaves alone.                                             *)
(***************************************************************************)
\* No article of the corpus, and none of a document of the results,
\* carries a score.
NoScoreInCorpus ==
    /\ \A k \in 1..Len(regulations) :
           \A a \in 1..Len(regulations[k].articles) :
               "score" \notin DOMAIN regulations[k].articles[a]
    /\ \A r \in 1..Len(results) :
           \A a \in 1..Len(results[r].regulation.articles) :
               "score" \notin DOMAIN results[r].regulation.articles[a]

\* C21: no query changes the documents or, once it is built, the index;
\* the index stays the projection of the documents, and the score of a
\* returned article is on a copy: no article of a document carries one.
C21_SearchLeavesCorpusAndIndex ==
    /\ [](pc = "ready" => /\ NoScoreInCorpus
                          /\ index = build_search_index(regulations))
    /\ [][/\ regulations' = regulations
          /\ pc = "ready" => index' = index]_vars

\* A lookup that returned articles with their scores, after which the
\* articles of the document are as they were parsed.
C21_Witness ==
    /\ pc = "ready"
    /\ regulation # 0
    /\ Len(relevant) >= 2
    /\ relevant[1].score > 0
    /\ \E a \in 1..Len(results[regulation].regulation.articles) :
           /\ results[regulation].regulation.articles[a].number = relevant[1].number
           /\ DOMAIN results[regulation].regulation.articles[a]
                  = {"number", "title", "content"}


(***************************************************************************)
(* Properties of the styles of a document.                                 *)
(***************************************************************************)
\* A document has been built.
Built == pc \in {"created", "analysed", "recorded"}

\* The paragraphs of the cells of the tables of the body.
CellParas ==
    UNION {UNION {UNION {{section[k].rows[r][c].paragraphs[n] :
                             n \in 1..Len(section[k].rows[r][c].paragraphs)} :
                         c \in 1..Len(section[k].rows[r])} :
                  r \in 1..Len(section[k].rows)} :
           k \in Tables}

\* The identifiers the body refers to.
CharShapeRefs ==
    {section[k].CharShape : k \in 1..Len(section)}
        \cup {para.CharShape : para \in CellParas}

ParaShapeRefs ==
    {section[k].ParaShape : k \in 1..Len(section)}
        \cup {para.ParaShape : para \in CellParas}

\* The identifiers of a list of styles of the head, in its order.
IdsOf(list) == [k \in 1..Len(list) |-> list[k].Id]

\* The titles of other documents.
OtherTitles == {<<>>, <<"x">>, <<"a", " ", "[amendment]">>}

\* C22: in every document built, each CharShape a paragraph or a cell
\* paragraph refers to is one of the five character styles 0..4 the head
\* defines, each ParaShape is one of its three paragraph styles 0..2, and
\* the table of styles of the head is the one of a document of any title.
C22_StyleRefsAreDefinedInHead ==
    Built =>
        /\ IdsOf(head.MAPPINGTABLE.CHARSHAPELIST) = <<"0", "1", "2", "3", "4">>
        /\ IdsOf(head.MAPPINGTABLE.PARASHAPELIST) = <<"0", "1", "2">>
        /\ \A id \in CharShapeRefs :
               \E k \in 1..Len(head.MAPPINGTABLE.CHARSHAPELIST) :
                   head.MAPPINGTABLE.CHARSHAPELIST[k].Id = id
        /\ \A id \in ParaShapeRefs :
               \E k \in 1..Len(head.MAPPINGTABLE.PARASHAPELIST) :
                   head.MAPPINGTABLE.PARASHAPELIST[k].Id = id
        /\ \A other \in OtherTitles :
               head.MAPPINGTABLE = _build_head(other).MAPPINGTABLE
        /\ head.DOCSUMMARY.TITLE = title

\* A document with a table whose body uses all five character styles and
\* all three paragraph styles.
C22_Witness ==
    /\ Built
    /\ Tables # {}
    /\ CellParas # {}
    /\ CharShapeRefs = {"0", "1", "2", "3", "4"}
    /\ ParaShapeRefs = {"0", "1", "2"}
    /\ head.DOCSUMMARY.TITLE # <<>>


(***************************************************************************)
(* Properties of the cells of a table.                                     *)
(***************************************************************************)
\* The positions of the newlines of a text.
NewlinesOf(text) == {j \in 1..Len(text) : text[j] = NL}

\* The n-th line of a text (from 1): what stands between its newlines
\* n - 1 and n, the ends of the text standing for the missing ones.
LineOf(text, n) ==
    LET from == IF n = 1 THEN 0 ELSE NthOf(NewlinesOf(text), n - 1)
        to == IF n > Cardinality(NewlinesOf(text)) THEN Len(text) + 1
              ELSE NthOf(NewlinesOf(text), n)
    IN  Slice(text, from + 1, to - 1)

\* The cell holds one paragraph for each line of the text, in order.
HoldsLinesOf(cell, text) ==
    /\ Len(cell.paragraphs) = Cardinality(NewlinesOf(text)) + 1
    /\ \A n \in 1..Len(cell.paragraphs) :
           cell.paragraphs[n].text = LineOf(text, n)
    /\ text = <<>> => /\ Len(cell.paragraphs) = 1
                      /\ cell.paragraphs[1].text = <<>>

\* C23: a data cell holds one sub-paragraph for each line of its text, in
\* order: k + 1 sub-paragraphs for a text with k newlines, and exactly one
\* sub-paragraph with empty text for an empty text; no sub-paragraph of a
\* data cell of any table contains a newline.
C23_CellSplitOnNewlines ==
    pc = "created" =>
        /\ \A n \in 1..Len(amendment_rows) :
              /\ HoldsLinesOf(ComparisonTable.rows[n + 1][1],
                              Get(amendment_rows[n], "current"))
              /\ HoldsLinesOf(ComparisonTable.rows[n + 1][2],
                              Get(amendment_rows[n], "revised"))
        /\ FilledInOrder # <<>> =>
              \A n \in 1..Len(FilledInOrder) :
                  HoldsLinesOf(MetadataTable.rows[n + 1][2],
                               metadata[FilledInOrder[n]])
        /\ \A k \in Tables :
              \A r \in 2..Len(section[k].rows) :
                  \A c \in 1..Len(section[k].rows[r]) :
                      /\ section[k].rows[r][c].paragraphs # <<>>
                      /\ \A n \in 1..Len(section[k].rows[r][c].paragraphs) :
                             NewlinesOf(section[k].rows[r][c].paragraphs[n].text) = {}

\* A row with a text of two newlines, the last one at its end, in three
\* sub-paragraphs, and an empty text in one empty sub-paragraph.
C23_Witness ==
    /\ pc = "created"
    /\ \E n \in 1..Len(amendment_rows) :
          /\ Get(amendment_rows[n], "current") = <<"a", NL, "b", NL>>
          /\ Len(ComparisonTable.rows[n + 1][1].paragraphs) = 3
          /\ ComparisonTable.rows[n + 1][1].paragraphs[3].text = <<>>
          /\ Get(amendment_rows[n], "revised") = <<>>
          /\ Len(ComparisonTable.rows[n + 1][2].paragraphs) = 1


(***************************************************************************)
(* Properties of the pairs of the reverse parser.                          *)
(***************************************************************************)
\* C24: every pair parse_gpt_amendment returns, from the table rows or from
\* the marked blocks, has a field that is not empty after trimming; a text
\* whose marker lines are followed by blank lines only gives no pair.
C24_EveryPairHasNonEmptyField ==
    pc = "parsed" =>
        \A n \in 1..Len(rows) :
            Strip(rows[n].current) # <<>> \/ Strip(rows[n].revised) # <<>>


(***************************************************************************)
(* Properties of the chat.                                                 *)
(***************************************************************************)
\* The turns are those of a user and of the assistant in turn, the user
\* first.
Alternates(turns) ==
    \A j \in 1..Len(turns) :
        turns[j].role = (IF j % 2 = 1 THEN "user" ELSE "assistant")

\* The messages of a request between the first and the last.
TurnsOf(request) == SubSeq(request.messages, 2, Len(request.messages) - 1)

\* The positions of the headings of the questions in the record.
QuestionHeadings ==
    {k \in 1..Len(section) :
        section[k].kind = "para" /\ section[k].CharShape = "2"}

\* The text the page stores for a reply.
StoredFor(reply) ==
    IF reply.ok THEN reply.content ELSE <<"[error:]", " ">> \o reply.cause

\* The last six turns of a history, or all of them.
RecentTurns(history) ==
    SubSeq(history, IF Len(history) > 6 THEN Len(history) - 5 ELSE 1,
           Len(history))

\* A submission for the chat of key: one request of a system message, the
\* recent turns and the prompt; the prompt and the answer, or the error
\* text, stored after the history; a record with one question for each
\* submission so far, in order, each followed by its answer (an answer of
\* the service being one line here).
SubmissionFor(key) ==
    LET old == ChatHistory(key)
        new == session_state'[key]
        sent == requests'[1]
        last == sent.request.messages[Len(sent.request.messages)]
    IN  /\ Len(new) = Len(old) + 2
        /\ SubSeq(new, 1, Len(old)) = old
        /\ Len(requests') = 1
        /\ sent.request.messages[1].role = "system"
        /\ TurnsOf(sent.request) = RecentTurns(old)
        /\ last.role = "user"
        /\ new[Len(old) + 1] = last
        /\ new[Len(old) + 2] = [role |-> "assistant",
                                content |-> StoredFor(sent.reply)]
        /\ Cardinality(QuestionHeadings') = Len(new) \div 2
        /\ \A n \in 1..Cardinality(QuestionHeadings') :
               LET at == NthOf(QuestionHeadings', n)
               IN  /\ section'[at].text = <<"Q">> \o Decimal(n) \o <<".", " ">>
                                              \o new[2 * n - 1].content
                   /\ section'[at + 1].kind = "para"
                   /\ section'[at + 1].text = new[2 * n].content
                   /\ section'[at + 2].kind = "empty"

\* C25: whatever has been submitted, with or without success, a stored
\* history has an even number of turns, of the user and of the assistant
\* in turn, the user first; a request is one system message, at most six
\* turns of the history that start with the user and alternate, and the
\* prompt; a submission stores its prompt and then its answer, the error
\* text for a failed call, and the record holds one question and answer
\* for each submission.
C25_ChatHistoryAlternates ==
    /\ [](pc = "page_chat" =>
            /\ \A key \in DOMAIN session_state :
                   /\ Len(session_state[key]) % 2 = 0
                   /\ Alternates(session_state[key])
            /\ \A n \in 1..Len(requests) :
                   LET messages == requests[n].request.messages
                   IN  /\ messages[1].role = "system"
                       /\ Len(TurnsOf(requests[n].request)) <= 6
                       /\ Alternates(TurnsOf(requests[n].request))
                       /\ messages[Len(messages)].role = "user"
                       /\ Len(messages) = Len(TurnsOf(requests[n].request)) + 2)
    /\ [][pc = "page_chat" =>
            \E key \in DOMAIN session_state' :
                /\ SubmissionFor(key)
                /\ \A other \in DOMAIN session_state' \ {key} :
                       /\ other \in DOMAIN session_state
                       /\ session_state'[other] = session_state[other]]_vars

\* The fifth question for a regulation, after a failed call: the request
\* carries six of the eight turns of the history, and the record has five
\* questions.
C25_Witness ==
    /\ pc = "page_chat"
    /\ Len(requests) = 1
    /\ Len(requests[1].request.messages) = 8
    /\ \E key \in DOMAIN session_state :
          /\ Len(session_state[key]) = 10
          /\ TurnsOf(requests[1].request) = SubSeq(session_state[key], 3, 8)
          /\ \E j \in 1..8 : /\ session_state[key][j].role = "assistant"
                             /\ session_state[key][j].content
                                    = <<"[error:]", " ", "[timeout]">>
    /\ Cardinality(QuestionHeadings) = 5

====
